---- MODULE Spec2Model ----
(***************************************************************************)
(* A model of the ingestion engine of nfl-data-duckdb:                     *)
(*   - DatabaseManager.insert_dataframe, the table materializer            *)
(*     (src/nfl_analytics/database/manager.py),                            *)
(*   - DatabaseManager.log_refresh, the refresh ledger,                    *)
(*   - NFLDataExtractor.extract_all_data and its _extract_* units, the     *)
(*     extraction coordinator over a thread pool                           *)
(*     (src/nfl_analytics/extractors/data_extractor.py).                   *)
(*                                                                         *)
(* A stored table is a bag of rows (the tables have no key, so a row can   *)
(* be stored more than once).  A row is modelled by its season and week    *)
(* columns, the two columns the code looks at; the week doubles as the     *)
(* payload of the tables that are keyed by season alone.  The metadata     *)
(* columns created_at and updated_at, which insert_dataframe appends to    *)
(* every batch, carry the wall clock and are left out of a row: rows are   *)
(* compared on their data columns.                                         *)
(*                                                                         *)
(* The specifications share the variables:                                 *)
(*   Spec      calls of the DatabaseManager and of refresh_week_data made  *)
(*             one after another by a single caller;                       *)
(*   SpecPool  one run of extract_all_data: the units run on the threads   *)
(*             of the pool, and each statement a unit sends to the shared  *)
(*             connection is one step;                                     *)
(*   FairSpecPool  SpecPool with the threads scheduled fairly;             *)
(*   SpecRerun extract_all_data run twice over the same upstream data with *)
(*             max_workers = 1.                                            *)
(***************************************************************************)
EXTENDS Integers, Sequences, FiniteSets, Bags, TLC

\* ---------------------------------------------------------------- bounds
MaxSeason == 2
MaxWeek == 2
MaxBatch == 2
MaxCalls == 2

\* ---------------------------------------------------------------- values
\* NaN / None / SQL NULL in a season or week column.
NULL == -1

\* The value a unit's local variable `records` has before it is bound.
NoRecords == -2

Seasons == 1..MaxSeason
Weeks == 1..MaxWeek

TableNames ==
  {"teams", "players", "schedules", "pbp_data", "weekly_stats",
   "seasonal_stats", "rosters", "injuries"}

\* manager.py:239, the lookup tables that are replaced as a whole.
LookupTables == {"teams", "players"}

\* manager.py:242, the data tables that are replaced by season.
SeasonTables == {"weekly_stats", "seasonal_stats", "pbp_data", "rosters", "injuries"}

\* The CHECK constraint of data_refresh_log.status.
Statuses == {"SUCCESS", "FAILED", "IN_PROGRESS"}

\* The data columns a batch can have, in the order the batch has them.
ColLists == {<<"season", "week">>, <<"season">>, <<"week">>, <<>>}

HasCol(cols, c) == \E i \in 1..Len(cols) : cols[i] = c

\* reserved_keyword_renames of insert_dataframe (manager.py:205-210).
ReservedKeywordRenames ==
  [desc |-> "play_description", order |-> "play_order", time |-> "game_time",
   date |-> "game_date_field"]

\* A renaming that knows desc only.
RenameReserved_DescOnly(cols) ==
  [i \in 1..Len(cols) |-> IF cols[i] = "desc" THEN "play_description" ELSE cols[i]]

\* The columns of df_clean after the loop of manager.py:212-214.  No new
\* name is itself a reserved one, so the renames in turn are one renaming.
RenameReserved(cols) ==
  [i \in 1..Len(cols) |->
     IF cols[i] \in DOMAIN ReservedKeywordRenames
     THEN ReservedKeywordRenames[cols[i]] ELSE cols[i]]

\* df_clean: the batch insert_dataframe creates the table from and inserts.
DfClean(df) == [df EXCEPT !.cols = RenameReserved(df.cols)]

Rows == [season : Seasons \cup {NULL}, week : Weeks \cup {NULL}]

\* The rows a batch with the columns cols can hold: a column the batch does
\* not have has no value.
RowsOf(cols) ==
  {r \in Rows : /\ (~HasCol(cols, "season") => r.season = NULL)
                /\ (~HasCol(cols, "week") => r.week = NULL)}

RECURSIVE SeqToBag(_)
SeqToBag(s) ==
  IF s = <<>> THEN EmptyBag ELSE SeqToBag(Tail(s)) (+) SetToBag({Head(s)})

BagsUpTo(S, n) == {SeqToBag(s) : s \in UNION {[1..k -> S] : k \in 0..n}}

\* The batches (DataFrames) the model passes to insert_dataframe.
DataFrames ==
  UNION {[cols : {cl}, rows : BagsUpTo(RowsOf(cl), MaxBatch)] : cl \in ColLists}

BagFilter(B, P(_)) == [r \in {x \in DOMAIN B : P(x)} |-> B[r]]

\* ------------------------------------------------- the analytical store
\* A table of the store: whether it exists, its data columns, its rows.
NoTable == [exists |-> FALSE, cols |-> <<>>, rows |-> EmptyBag]

\* The outcome of one statement: the table after it, and whether the store
\* rejected it (the statement then changes nothing).
Ok(td) == [td |-> td, raised |-> FALSE]
Rejected(td) == [td |-> td, raised |-> TRUE]

\* SELECT COUNT(*) FROM information_schema.tables WHERE table_name = t
TableExists(td) == td.exists

\* CREATE TABLE t AS SELECT * FROM df_clean WHERE 1=0
CreateTable(td, df) ==
  IF td.exists THEN Rejected(td)
  ELSE Ok([exists |-> TRUE, cols |-> df.cols, rows |-> EmptyBag])

\* The DELETE statements insert_dataframe sends before its INSERT.
\* A statement is [kind, season, week].
DeleteAllStmt == [kind |-> "all", season |-> NULL, week |-> NULL]
DeleteSeasonStmt(s) == [kind |-> "season", season |-> s, week |-> NULL]
DeleteWeekStmt(s, w) == [kind |-> "week", season |-> s, week |-> w]

\* df['season'].dropna().unique()
BatchSeasons(df) == {r.season : r \in DOMAIN df.rows} \ {NULL}

\* df[df['season'] == s]['week'].dropna().unique()
BatchWeeks(df, s) == {r.week : r \in {x \in DOMAIN df.rows : x.season = s}} \ {NULL}

RECURSIVE SetToSeq(_)
SetToSeq(S) ==
  IF S = {} THEN <<>>
  ELSE LET m == CHOOSE x \in S : \A y \in S : x <= y
       IN <<m>> \o SetToSeq(S \ {m})

RECURSIVE Flatten(_)
Flatten(ss) == IF ss = <<>> THEN <<>> ELSE Head(ss) \o Flatten(Tail(ss))

\* One DELETE by season, for every table.
WeekStmts_SeasonOnly(df, t, s) == <<DeleteSeasonStmt(s)>>

\* The DELETE statements of one season (manager.py:247-252): by week for
\* weekly_stats, over the weeks of the batch that are not null.
WeekStmts(df, t, s) ==
  IF t = "weekly_stats" /\ HasCol(df.cols, "week")
  THEN LET ws == SetToSeq(BatchWeeks(df, s))
       IN [i \in 1..Len(ws) |-> DeleteWeekStmt(s, ws[i])]
  ELSE <<DeleteSeasonStmt(s)>>

\* A replace that clears the whole table, as for the lookup tables.
DeleteStmts_ClearAll(df, t, on_conflict) ==
  IF on_conflict = "REPLACE" /\ t \in LookupTables \cup SeasonTables
  THEN <<DeleteAllStmt>> ELSE <<>>

\* A replace that clears nothing for the lookup tables.
DeleteStmts_KeepLookup(df, t, on_conflict) ==
  IF on_conflict # "REPLACE" THEN <<>>
  ELSE IF t \in SeasonTables /\ HasCol(df.cols, "season")
       THEN LET ss == SetToSeq(BatchSeasons(df))
            IN Flatten([i \in 1..Len(ss) |-> WeekStmts(df, t, ss[i])])
  ELSE <<>>

\* The DELETE statements of one insert_dataframe call (manager.py:237-253).
DeleteStmts(df, t, on_conflict) ==
  IF on_conflict # "REPLACE" THEN <<>>
  ELSE IF t \in LookupTables THEN <<DeleteAllStmt>>
  ELSE IF t \in SeasonTables /\ HasCol(df.cols, "season")
       THEN LET ss == SetToSeq(BatchSeasons(df))
            IN Flatten([i \in 1..Len(ss) |-> WeekStmts(df, t, ss[i])])
  ELSE <<>>

\* DELETE FROM t [WHERE season = ? [AND week = ?]]: a NULL never equals the
\* parameter, and a WHERE clause over a column the table does not have is
\* rejected.
ExecDelete(td, st) ==
  IF ~td.exists THEN Rejected(td)
  ELSE IF st.kind = "all" THEN Ok([td EXCEPT !.rows = EmptyBag])
  ELSE IF st.kind = "season"
       THEN IF ~HasCol(td.cols, "season") THEN Rejected(td)
            ELSE Ok([td EXCEPT !.rows = BagFilter(td.rows, LAMBDA r : r.season # st.season)])
  ELSE IF ~HasCol(td.cols, "season") \/ ~HasCol(td.cols, "week") THEN Rejected(td)
       ELSE Ok([td EXCEPT !.rows =
                  BagFilter(td.rows, LAMBDA r : ~(r.season = st.season /\ r.week = st.week))])

\* INSERT INTO t SELECT * FROM df_clean matches the columns by position: the
\* i-th column of the batch is stored under the i-th column of the table.
\* The model follows the values of season and week only.
ColValue(r, c) ==
  CASE c = "season" -> r.season
    [] c = "week" -> r.week
    [] OTHER -> NULL

PosOf(cols, c) == CHOOSE i \in 1..Len(cols) : cols[i] = c

StoredRow(r, bcols, tcols) ==
  [season |-> IF HasCol(tcols, "season")
              THEN ColValue(r, bcols[PosOf(tcols, "season")]) ELSE NULL,
   week |-> IF HasCol(tcols, "week")
            THEN ColValue(r, bcols[PosOf(tcols, "week")]) ELSE NULL]

RECURSIVE StoredBag(_, _, _)
StoredBag(rows, bcols, tcols) ==
  IF DOMAIN rows = {} THEN EmptyBag
  ELSE LET r == CHOOSE x \in DOMAIN rows : TRUE
           rest == [x \in DOMAIN rows \ {r} |-> rows[x]]
           one == SetToBag({StoredRow(r, bcols, tcols)})
           copies == [x \in DOMAIN one |-> rows[r]]
       IN copies (+) StoredBag(rest, bcols, tcols)

\* The store rejects an INSERT whose column count differs from the table's.
ExecInsert(td, df) ==
  IF ~td.exists \/ Len(df.cols) # Len(td.cols) THEN Rejected(td)
  ELSE Ok([td EXCEPT !.rows = td.rows (+) StoredBag(df.rows, df.cols, td.cols)])

RECURSIVE ExecDeletes(_, _)
ExecDeletes(td, stmts) ==
  IF stmts = <<>> THEN Ok(td)
  ELSE LET r == ExecDelete(td, Head(stmts))
       IN IF r.raised THEN r ELSE ExecDeletes(r.td, Tail(stmts))

\* The value insert_dataframe returns, or Raised.
Raised == -3

\* An insert_dataframe without the early return for an empty batch.
InsertDataframe_NoEmptyCheck(td, df, t, on_conflict) ==
  LET df_clean == DfClean(df)
      c == IF TableExists(td) THEN Ok(td) ELSE CreateTable(td, df_clean)
      d == IF c.raised THEN c
           ELSE ExecDeletes(c.td, DeleteStmts(df_clean, t, on_conflict))
      i == IF d.raised THEN d ELSE ExecInsert(d.td, df_clean)
  IN [td |-> i.td,
      result |-> IF i.raised THEN Raised ELSE BagCardinality(df.rows)]

\* An insert_dataframe whose statements are one transaction: a call that
\* raises leaves the table as it found it.
InsertDataframe_Atomic(td, df, t, on_conflict) ==
  IF BagCardinality(df.rows) = 0 THEN [td |-> td, result |-> 0]
  ELSE LET df_clean == DfClean(df)
           c == IF TableExists(td) THEN Ok(td) ELSE CreateTable(td, df_clean)
           d == IF c.raised THEN c
                ELSE ExecDeletes(c.td, DeleteStmts(df_clean, t, on_conflict))
           i == IF d.raised THEN d ELSE ExecInsert(d.td, df_clean)
       IN [td |-> IF i.raised THEN td ELSE i.td,
           result |-> IF i.raised THEN Raised ELSE BagCardinality(df.rows)]

\* insert_dataframe(df, t, on_conflict) run without interruption:
\* [td: the table after the call, result: rows inserted or Raised].
InsertDataframe(td, df, t, on_conflict) ==
  IF BagCardinality(df.rows) = 0 THEN [td |-> td, result |-> 0]
  ELSE LET df_clean == DfClean(df)
           c == IF TableExists(td) THEN Ok(td) ELSE CreateTable(td, df_clean)
           d == IF c.raised THEN c
                ELSE ExecDeletes(c.td, DeleteStmts(df_clean, t, on_conflict))
           i == IF d.raised THEN d ELSE ExecInsert(d.td, df_clean)
       IN [td |-> i.td,
           result |-> IF i.raised THEN Raised ELSE BagCardinality(df.rows)]

\* ---------------------------------------------------- the refresh ledger
\* data_refresh_log in write order.  An entry is
\* [id, table_name, season, week, season_type, status, error_message,
\*  records_processed] as log_refresh passes it, and the refresh_date the
\* store gives it.
NoError == "NONE"

Entry(id, t, season, week, stype, status, error, records) ==
  [id |-> id, table_name |-> t, season |-> season, week |-> week,
   season_type |-> stype, status |-> status, error_message |-> error,
   records_processed |-> records]

Ids(led) == {led[i].id : i \in 1..Len(led)}

\* SELECT COALESCE(MAX(id), 0) + 1 FROM data_refresh_log; when the lookup
\* itself fails, log_refresh falls back to 1 (manager.py:362-363).
NextId(led, lookupFails) ==
  IF lookupFails \/ led = <<>> THEN 1
  ELSE 1 + (CHOOSE m \in Ids(led) : \A k \in Ids(led) : k <= m)

\* INSERT INTO data_refresh_log: the store rejects a duplicate id (PRIMARY
\* KEY), a NULL season (NOT NULL) and a status outside the CHECK list.
LogRejects(led, e) ==
  \/ e.id \in Ids(led)
  \/ e.season = NULL
  \/ e.status \notin Statuses

\* refresh_date TIMESTAMP DEFAULT CURRENT_TIMESTAMP (manager.py:57): the
\* store's clock when the INSERT runs.  The statements of the connection run
\* one after another, so an entry's stamp is later than the stamp of every
\* entry written before it; the clock is counted in writes.
Stamp(led) == Len(led) + 1

LogInsert(led, e) ==
  IF LogRejects(led, e) THEN led
  ELSE Append(led, [refresh_date |-> Stamp(led)] @@ e)

\* Whether log_refresh raises to its caller when the store rejected its
\* INSERT: the except clause of manager.py:376-377 only logs.
LogRefreshRaises_Propagates(rejected) == rejected

LogRefreshRaises(rejected) == FALSE

\* log_refresh(...) run without interruption:
\* [ledger: the ledger after the call, raised: whether the call raised].
LogRefresh(led, t, season, week, stype, status, error, records, lookupFails) ==
  LET e == Entry(NextId(led, lookupFails), t, season, week, stype, status, error, records)
  IN [ledger |-> LogInsert(led, e), raised |-> LogRefreshRaises(LogRejects(led, e))]

\* A get_last_refresh that counts the entries of every status.
GetLastRefresh_AnyStatus(led, t, season, week, queryFails) ==
  LET hits == {i \in 1..Len(led) :
                 /\ led[i].table_name = t
                 /\ led[i].season = season
                 /\ (week # NULL => led[i].week = week)}
      dates == {led[i].refresh_date : i \in hits}
  IN IF queryFails \/ dates = {} THEN NULL
     ELSE CHOOSE m \in dates : \A d \in dates : d <= m

\* get_last_refresh(t, season, week) (manager.py:320-340):
\*   SELECT MAX(refresh_date) FROM data_refresh_log
\*   WHERE table_name = ? AND season = ? AND status = 'SUCCESS' [AND week = ?]
\* The week condition is sent only when week is not None.  The result is the
\* stamp, or NULL for None: MAX over no row is NULL, and when the store
\* rejects the query (queryFails) the except clause returns None.
GetLastRefresh(led, t, season, week, queryFails) ==
  LET hits == {i \in 1..Len(led) :
                 /\ led[i].table_name = t
                 /\ led[i].season = season
                 /\ led[i].status = "SUCCESS"
                 /\ (week # NULL => led[i].week = week)}
      dates == {led[i].refresh_date : i \in hits}
  IN IF queryFails \/ dates = {} THEN NULL
     ELSE CHOOSE m \in dates : \A d \in dates : d <= m

\* ------------------------------------------------------ ingestion units
\* What the upstream provider returns for one _extract_* call: one row per
\* requested season; the team and player directories have no season.
\* The seasons differ in what upstream has for them: one week for season 1,
\* two weeks for every later season.
UpstreamWeeks(s) == IF s = 1 THEN {1} ELSE {1, 2}

RECURSIVE SeasonRows(_)
SeasonRows(ss) ==
  IF ss = <<>> THEN EmptyBag
  ELSE SetToBag({[season |-> Head(ss), week |-> w] : w \in UpstreamWeeks(Head(ss))})
         (+) SeasonRows(Tail(ss))

Upstream(t, ss) ==
  IF t \in LookupTables
  THEN [cols |-> <<>>, rows |-> SetToBag({[season |-> NULL, week |-> NULL]})]
  ELSE [cols |-> <<"season", "week">>, rows |-> SeasonRows(ss)]

\* The seasons a unit logs: teams and players log season 0
\* (data_extractor.py:91, 117), the others each season of their argument.
LogSeasons(t, ss) == IF t \in LookupTables THEN <<0>> ELSE ss

NoDf == [cols |-> <<>>, rows |-> EmptyBag]

\* A unit (one _extract_* call) and its local variables.  pc is the next
\* statement it sends to the shared connection; logCalls counts the calls
\* of log_refresh it has made.
NewUnit(t, ss) ==
  [table |-> t, seasons |-> ss, pc |-> "queued", phase |-> "SUCCESS",
   df |-> NoDf, stmts |-> <<>>, records |-> NoRecords, err |-> NoError,
   logIdx |-> 0, nextId |-> 0, logCalls |-> 0]

Terminal(u) == u.pc \in {"returned", "raised"}

\* The unit enters its except clause: it logs FAILED for each season and
\* then re-raises (data_extractor.py:190-198).
Except(u, kind) ==
  [u EXCEPT !.phase = "FAILED", !.err = kind, !.df = NoDf, !.stmts = <<>>,
            !.logIdx = 1, !.pc = "log_read"]

\* The unit bound `records` and starts to log SUCCESS.
Inserted(u, n) ==
  [u EXCEPT !.records = n, !.df = NoDf, !.stmts = <<>>, !.logIdx = 1, !.pc = "log_read"]

AfterDeletes(u, stmts) ==
  [u EXCEPT !.stmts = stmts, !.pc = IF stmts = <<>> THEN "insert" ELSE "delete"]

\* One step of a unit on the store st = [tables, ledger]: the statement at
\* u.pc.  fetchFails and lookupFails are the environment's choices.
\* The result is [u, tables, ledger].
UnitStep(u, st, fetchFails, lookupFails) ==
  LET t == u.table
      td == st.tables[t]
      keep(v) == [u |-> v, tables |-> st.tables, ledger |-> st.ledger]
      store(v, r) == [u |-> v, tables |-> [st.tables EXCEPT ![t] = r.td], ledger |-> st.ledger]
  IN
  CASE u.pc = "fetch" ->
         IF fetchFails THEN keep(Except(u, "fetch"))
         ELSE LET df == Upstream(t, u.seasons)
              IN IF BagCardinality(df.rows) = 0 THEN keep(Inserted(u, 0))
                 ELSE keep([u EXCEPT !.df = DfClean(df), !.pc = "check"])
    [] u.pc = "check" ->
         IF TableExists(td)
         THEN keep(AfterDeletes(u, DeleteStmts(u.df, t, "REPLACE")))
         ELSE keep([u EXCEPT !.pc = "create"])
    [] u.pc = "create" ->
         LET r == CreateTable(td, u.df)
         IN IF r.raised THEN keep(Except(u, "create"))
            ELSE store(AfterDeletes(u, DeleteStmts(u.df, t, "REPLACE")), r)
    [] u.pc = "delete" ->
         LET r == ExecDelete(td, Head(u.stmts))
         IN IF r.raised THEN keep(Except(u, "delete"))
            ELSE store(AfterDeletes(u, Tail(u.stmts)), r)
    [] u.pc = "insert" ->
         LET r == ExecInsert(td, u.df)
         IN IF r.raised THEN keep(Except(u, "insert"))
            ELSE store(Inserted(u, BagCardinality(u.df.rows)), r)
    [] u.pc = "log_read" ->
         keep([u EXCEPT !.nextId = NextId(st.ledger, lookupFails), !.pc = "log_write"])
    [] u.pc = "log_write" ->
         LET ls == LogSeasons(t, u.seasons)
             e == Entry(u.nextId, t, ls[u.logIdx], NULL, "ALL", u.phase,
                        u.err, IF u.phase = "SUCCESS" THEN u.records ELSE 0)
             rejected == LogRejects(st.ledger, e)
             isLast == u.logIdx = Len(ls)
             v == IF LogRefreshRaises(rejected)
                  THEN IF u.phase = "SUCCESS" THEN Except(u, "log")
                       ELSE [u EXCEPT !.err = "log", !.pc = "raised", !.nextId = 0, !.logIdx = 0]
                  ELSE IF isLast
                       THEN [u EXCEPT !.pc = IF u.phase = "SUCCESS" THEN "returned" ELSE "raised",
                                      !.nextId = 0, !.logIdx = 0]
                       ELSE [u EXCEPT !.pc = "log_read", !.nextId = 0, !.logIdx = u.logIdx + 1]
         IN [u |-> [v EXCEPT !.logCalls = u.logCalls + 1],
             tables |-> st.tables, ledger |-> LogInsert(st.ledger, e)]

\* A unit run from its first statement to its end with no other thread in
\* between, as refresh_season_data and a pool of one worker run it.
RECURSIVE RunUnit(_, _, _, _)
RunUnit(u, st, fetchFails, lookupFails) ==
  IF Terminal(u) THEN [u |-> u, tables |-> st.tables, ledger |-> st.ledger]
  ELSE LET n == UnitStep(u, st, fetchFails, lookupFails)
       IN RunUnit(n.u, [tables |-> n.tables, ledger |-> n.ledger], fetchFails, lookupFails)

\* ------------------------------------------------------------- the state
VARIABLES
  tables,      \* the analytical store: table name -> table
  ledger,      \* data_refresh_log, in write order
  target,      \* Spec: the table the caller works on
  calls,       \* Spec: the number of calls made
  last,        \* Spec: the last call, its arguments, what it found and returned
  seasons,     \* SpecPool: the seasons argument of extract_all_data
  maxWorkers,  \* SpecPool: the max_workers argument
  units,       \* SpecPool: the submitted units, in submission order
  results,     \* SpecPool: the results dict of extract_all_data
  mainPc,      \* SpecPool: where extract_all_data is
  down,        \* SpecPool: the units whose upstream fetch raises
  run,         \* SpecRerun: the number of the run
  ecr          \* SpecEcr: a run of ECRExtractor.refresh_raw_ecr

vars == <<tables, ledger, target, calls, last, seasons, maxWorkers, units,
          results, mainPc, down, run, ecr>>

storeVars == <<tables, ledger>>
callVars == <<target, calls, last>>
poolVars == <<seasons, maxWorkers, units, results, mainPc, down, run>>

NoCall == [op |-> "none"]

\* No refresh_raw_ecr is run.
NoEcr == [pc |-> "off"]
NoResults == [t \in TableNames |-> NoRecords]

EmptyStore ==
  /\ tables = [t \in TableNames |-> NoTable]
  /\ ledger = <<>>

NoPool ==
  /\ seasons = <<>>
  /\ maxWorkers = 0
  /\ units = <<>>
  /\ results = NoResults
  /\ mainPc = "idle"
  /\ down = {}
  /\ run = 0

\* ------------------------------------------- Spec: calls one after another
Init ==
  /\ EmptyStore
  /\ target \in TableNames
  /\ calls = 0
  /\ last = NoCall
  /\ NoPool
  /\ ecr = NoEcr

\* insert_dataframe(df, target, on_conflict)
CallInsertDataframe(df, on_conflict) ==
  /\ calls < MaxCalls
  /\ LET r == InsertDataframe(tables[target], df, target, on_conflict)
     IN /\ tables' = [tables EXCEPT ![target] = r.td]
        /\ last' = [op |-> "insert", table |-> target, df |-> df,
                    on_conflict |-> on_conflict, before |-> tables[target],
                    result |-> r.result]
  /\ calls' = calls + 1
  /\ UNCHANGED <<ecr, ledger, target, poolVars>>

\* log_refresh(target, season, None, 'ALL', status, records_processed=records)
CallLogRefresh(season, status, records, lookupFails) ==
  /\ calls < MaxCalls
  /\ LET r == LogRefresh(ledger, target, season, NULL, "ALL", status, NoError,
                         records, lookupFails)
     IN /\ ledger' = r.ledger
        /\ last' = [op |-> "log", table |-> target, season |-> season,
                    status |-> status, ledgerBefore |-> ledger,
                    lookupFails |-> lookupFails, raised |-> r.raised]
  /\ calls' = calls + 1
  /\ UNCHANGED <<ecr, tables, target, poolVars>>

\* One _extract_* call for the target table, run by itself.
CallExtract(ss, fetchFails, lookupFails) ==
  /\ calls < MaxCalls
  /\ LET u == [NewUnit(target, IF target \in LookupTables THEN <<>> ELSE ss)
                 EXCEPT !.pc = "fetch"]
         r == RunUnit(u, [tables |-> tables, ledger |-> ledger], fetchFails, lookupFails)
     IN /\ tables' = r.tables
        /\ ledger' = r.ledger
        /\ last' = [op |-> "extract", table |-> target,
                    seasons |-> LogSeasons(target, ss),
                    ledgerBefore |-> ledger, pc |-> r.u.pc,
                    records |-> r.u.records, err |-> r.u.err]
  /\ calls' = calls + 1
  /\ UNCHANGED <<ecr, target, poolVars>>

\* refresh_week_data(season, week).  n is the number of rows upstream has for
\* the week; queryRejected is whether the store rejects the DELETE that goes
\* through DatabaseManager.query with a dict of parameters.
CallRefreshWeekData(season, week, n, fetchFails, queryRejected, lookupFails) ==
  /\ calls < MaxCalls
  /\ target = "weekly_stats"
  /\ LET td == tables[target]
         df == [cols |-> <<"season", "week">>,
                rows |-> IF n = 0 THEN EmptyBag
                         ELSE [r \in {[season |-> season, week |-> week]} |-> n]]
         del == IF queryRejected THEN Rejected(td)
                ELSE ExecDelete(td, DeleteWeekStmt(season, week))
         ins == InsertDataframe(del.td, df, target, "REPLACE")
         failed == fetchFails \/ (n > 0 /\ (del.raised \/ ins.result = Raised))
         okLog == LogRefresh(ledger, target, season, week, "REG", "SUCCESS", NoError,
                             ins.result, lookupFails)
         koLog == LogRefresh(ledger, target, season, week, "REG", "FAILED",
                             IF fetchFails THEN "fetch"
                             ELSE IF del.raised THEN "delete" ELSE "insert",
                             0, lookupFails)
     IN /\ tables' = IF fetchFails \/ n = 0 \/ del.raised THEN tables
                     ELSE [tables EXCEPT ![target] = ins.td]
        /\ ledger' = IF failed THEN koLog.ledger
                     ELSE IF n = 0 THEN ledger
                     ELSE okLog.ledger
        /\ last' = [op |-> "refresh_week", table |-> target, seasons |-> <<season>>,
                    week |-> week, ledgerBefore |-> ledger,
                    pc |-> IF failed THEN "failed" ELSE "returned",
                    records |-> IF failed THEN 0
                                ELSE IF n = 0 THEN NoRecords ELSE ins.result]
  /\ calls' = calls + 1
  /\ UNCHANGED <<ecr, target, poolVars>>

Next ==
  \/ \E df \in DataFrames, oc \in {"REPLACE", "IGNORE"} : CallInsertDataframe(df, oc)
  \/ \E s \in {1, NULL}, st \in {"SUCCESS", "FAILED", "DONE"}, lf \in BOOLEAN :
       CallLogRefresh(s, st, 0, lf)
  \/ \E s \in Seasons, ff \in BOOLEAN, lf \in BOOLEAN : CallExtract(<<s>>, ff, lf)
  \/ \E s \in Seasons, w \in Weeks, n \in 0..1, ff \in BOOLEAN, qr \in BOOLEAN,
        lf \in BOOLEAN : CallRefreshWeekData(s, w, n, ff, qr, lf)

Spec == Init /\ [][Next]_vars

\* ------------------------------------------------------ claims under Spec
\* A season batch: a non-empty batch with a season column whose rows all
\* have the same season, which is not null.
IsSeasonBatch(df) ==
  /\ HasCol(df.cols, "season")
  /\ BagCardinality(df.rows) > 0
  /\ Cardinality(BatchSeasons(df)) = 1
  /\ \A r \in DOMAIN df.rows : r.season # NULL

BatchSeason(df) == CHOOSE s \in BatchSeasons(df) : TRUE

\* C1: for a season-keyed fact table, inserting the same non-empty season
\* batch again (REPLACE) leaves the table with the rows it has after the
\* first insert.
C1_IdempotentReplace ==
  (/\ last.op = "insert"
   /\ last.table \in SeasonTables
   /\ last.on_conflict = "REPLACE"
   /\ IsSeasonBatch(last.df)
   /\ last.result # Raised)
  => InsertDataframe(tables[last.table], last.df, last.table, "REPLACE").td.rows
       = tables[last.table].rows

\* C2: an insert of a batch whose rows all have season N into a season-keyed
\* fact table leaves every stored row of another season (or of no season)
\* in the table, at least as often as it was stored before, and exactly as
\* often under the default REPLACE policy.
C2_PartitionIsolation ==
  (/\ last.op = "insert"
   /\ last.table \in SeasonTables
   /\ IsSeasonBatch(last.df))
  => \A r \in DOMAIN last.before.rows :
       r.season # BatchSeason(last.df)
         => /\ CopiesIn(r, tables[last.table].rows) >= CopiesIn(r, last.before.rows)
            /\ last.on_conflict = "REPLACE"
                 => CopiesIn(r, tables[last.table].rows) = CopiesIn(r, last.before.rows)

\* A replace that deleted rows of season N and kept rows of another season.
C2_Witness ==
  /\ last.op = "insert"
  /\ last.table \in SeasonTables
  /\ last.on_conflict = "REPLACE"
  /\ IsSeasonBatch(last.df)
  /\ last.result # Raised
  /\ \E r \in DOMAIN last.before.rows : r.season = BatchSeason(last.df)
  /\ \E r \in DOMAIN last.before.rows : r.season \notin {BatchSeason(last.df), NULL}
  /\ BagCardinality(tables[last.table].rows) < 
       BagCardinality(last.before.rows) + BagCardinality(last.df.rows)

\* --------------------------------- SpecPool: one run of extract_all_data
MaxWorkers == 2
MaxFailures == 1
NumExtractors == 2

\* The per-season extractors, in the order extract_all_data submits them
\* (data_extractor.py:61-65).
SeasonExtractors == <<"pbp_data", "weekly_stats", "seasonal_stats", "rosters", "injuries">>

\* The units extract_all_data submits, in submission order
\* (data_extractor.py:56-65); the model runs the first NumExtractors of the
\* per-season extractors.
Units(ss) ==
  <<NewUnit("teams", <<>>), NewUnit("players", <<>>), NewUnit("schedules", ss)>>
  \o Flatten([i \in 1..Len(ss) |->
                [k \in 1..NumExtractors |-> NewUnit(SeasonExtractors[k], <<ss[i]>>)]])

UnitKey(u) == <<u.table, u.seasons>>

UnitKeys(ss) == {UnitKey(Units(ss)[i]) : i \in 1..Len(Units(ss))}

SeasonLists == {[i \in 1..n |-> i] : n \in 1..MaxSeason}

Running(us) == {i \in 1..Len(us) : us[i].pc \notin {"queued", "returned", "raised"}}

\* The as_completed loop (data_extractor.py:68-74): the result of a unit that
\* returned is stored under its table name, the exception of a unit that
\* raised is logged and dropped.
Collect_Sums(res, u) ==
  IF u.pc = "returned"
    THEN [res EXCEPT ![u.table] =
            IF @ = NoRecords THEN u.records ELSE @ + u.records]
    ELSE res

Collect(res, u) ==
  IF u.pc = "returned" THEN [res EXCEPT ![u.table] = u.records] ELSE res

\* Where extract_all_data is after it took a unit's outcome.
MainAfter_Propagates(u) == IF u.pc = "raised" THEN "raised" ELSE "collecting"

MainAfter(u) == "collecting"

InitPool ==
  /\ EmptyStore
  /\ target = "teams"
  /\ calls = 0
  /\ last = NoCall
  /\ seasons \in SeasonLists
  /\ maxWorkers \in 1..MaxWorkers
  /\ units = <<>>
  /\ results = NoResults
  /\ mainPc = "idle"
  /\ down \in {d \in SUBSET UnitKeys(seasons) : Cardinality(d) <= MaxFailures}
  /\ run = 1
  /\ ecr = NoEcr

\* extract_all_data submits its units to the executor.
SubmitAll ==
  /\ mainPc = "idle"
  /\ units' = Units(seasons)
  /\ mainPc' = "collecting"
  /\ UNCHANGED <<ecr, storeVars, callVars, seasons, maxWorkers, results, down, run>>

\* An idle worker thread takes the oldest queued unit and calls it: the unit
\* fetches its batch from upstream, which touches nothing shared.
Start(i) ==
  /\ mainPc = "collecting"
  /\ i \in 1..Len(units)
  /\ units[i].pc = "queued"
  /\ \A j \in 1..(i - 1) : units[j].pc # "queued"
  /\ Cardinality(Running(units)) < maxWorkers
  /\ units' = [units EXCEPT ![i] =
                 UnitStep([units[i] EXCEPT !.pc = "fetch"],
                          [tables |-> tables, ledger |-> ledger],
                          UnitKey(units[i]) \in down, FALSE).u]
  /\ UNCHANGED <<ecr, storeVars, callVars, seasons, maxWorkers, results, mainPc, down, run>>

\* A running unit sends its next statement; when this ends the unit, the
\* as_completed loop takes its outcome.
Step(i) ==
  /\ mainPc = "collecting"
  /\ i \in Running(units)
  /\ LET r == UnitStep(units[i], [tables |-> tables, ledger |-> ledger], FALSE, FALSE)
     IN /\ units' = [units EXCEPT ![i] = r.u]
        /\ tables' = r.tables
        /\ ledger' = r.ledger
        /\ results' = IF Terminal(r.u) THEN Collect(results, r.u) ELSE results
        /\ mainPc' = IF Terminal(r.u) THEN MainAfter(r.u) ELSE mainPc
  /\ UNCHANGED <<ecr, callVars, seasons, maxWorkers, down, run>>

\* Every future is done: extract_all_data returns results.
Return ==
  /\ mainPc = "collecting"
  /\ \A i \in 1..Len(units) : Terminal(units[i])
  /\ mainPc' = "returned"
  /\ UNCHANGED <<ecr, storeVars, callVars, seasons, maxWorkers, units, results, down, run>>

NextPool ==
  \/ SubmitAll
  \/ \E i \in 1..Len(units) : Start(i)
  \/ \E i \in 1..Len(units) : Step(i)
  \/ Return

SpecPool == InitPool /\ [][NextPool]_vars

\* FairSpecPool: a run of extract_all_data over at most MaxFairSeasons
\* seasons in which the threads run: a step that stays possible is taken.
MaxFairSeasons == 1

InitFair ==
  /\ InitPool
  /\ Len(seasons) <= MaxFairSeasons

FairSpecPool == InitFair /\ [][NextPool]_vars /\ WF_vars(NextPool)

\* ------------------------- SpecRerun: extract_all_data run again, one worker
MaxRuns == 2

InitRerun ==
  /\ InitPool
  /\ maxWorkers = 1

\* The command is run again with the same seasons over the same upstream
\* data; last keeps the store the previous run left.
Rerun ==
  /\ mainPc = "returned"
  /\ run < MaxRuns
  /\ last' = [op |-> "run", tables |-> tables, results |-> results]
  /\ units' = <<>>
  /\ results' = NoResults
  /\ mainPc' = "idle"
  /\ run' = run + 1
  /\ UNCHANGED <<ecr, storeVars, target, calls, seasons, maxWorkers, down>>

NextRerun ==
  \/ NextPool
  \/ Rerun

SpecRerun == InitRerun /\ [][NextRerun]_vars

\* ----------------------------------------------------- claims, continued
\* C3: after extract_all_data has run a second time for the same seasons
\* over the same upstream data, every table holds the rows it held after
\* the first run.
C3_SafeRetry ==
  (run = 2 /\ mainPc = "returned")
  => \A t \in TableNames : tables[t].rows = last.tables[t].rows

\* A unit is inside the materializer's statement sequence from its
\* table-existence check to its INSERT.
InSequence(u) == u.pc \in {"create", "delete", "insert"}

\* C4: at most one worker is inside the materializer's statement sequence.
C4_WritersSerialized ==
  Cardinality({i \in 1..Len(units) : InSequence(units[i])}) <= 1

\* C5: when no fetch fails, a first run of extract_all_data ends with every
\* unit successful and every per-season table holding exactly the union of
\* the seasons' batches, whatever the interleaving.
C5_UnorderedUnits ==
  (mainPc = "returned" /\ down = {})
  => /\ \A i \in 1..Len(units) : units[i].pc = "returned"
     /\ \A k \in 1..NumExtractors :
          tables[SeasonExtractors[k]].rows = SeasonRows(seasons)

RECURSIVE LogCalls(_)
LogCalls(us) == IF us = <<>> THEN 0 ELSE Head(us).logCalls + LogCalls(Tail(us))

\* C6: the ledger holds one entry for each call of log_refresh made, with
\* ids 1, 2, ... in write order.
C6_LedgerMonotonic ==
  /\ \A i \in 1..Len(ledger) : ledger[i].id = i
  /\ Len(ledger) = LogCalls(units)

HasEntry(t, season, status) ==
  \E j \in 1..Len(ledger) :
    /\ ledger[j].table_name = t
    /\ ledger[j].season = season
    /\ ledger[j].status = status

\* C8: the result map has an entry for a table only from a unit that
\* returned, mapped to that unit's rows_inserted; a unit that raised has a
\* FAILED ledger entry for each of its seasons.
C8_FailedUnitExcluded ==
  mainPc = "returned"
  => /\ \A t \in TableNames :
          results[t] # NoRecords
            => \E i \in 1..Len(units) :
                 /\ units[i].table = t
                 /\ units[i].pc = "returned"
                 /\ units[i].records = results[t]
     /\ \A i \in 1..Len(units) :
          units[i].pc = "raised"
            => LET ls == LogSeasons(units[i].table, units[i].seasons)
               IN \A k \in 1..Len(ls) : HasEntry(units[i].table, ls[k], "FAILED")

\* C9: a terminated attempt (an _extract_* call, or refresh_week_data) has
\* appended exactly one ledger entry for each season it covers: SUCCESS with
\* the rows inserted if it returned, FAILED with the error text if it failed.
C9_OneEntryPerAttempt ==
  last.op \in {"extract", "refresh_week"}
  => LET n == Len(last.ledgerBefore)
         k == Len(last.seasons)
     IN /\ Len(ledger) = n + k
        /\ SubSeq(ledger, 1, n) = last.ledgerBefore
        /\ \A j \in 1..k :
             /\ ledger[n + j].table_name = last.table
             /\ ledger[n + j].season = last.seasons[j]
             /\ IF last.pc = "returned"
                THEN /\ ledger[n + j].status = "SUCCESS"
                     /\ ledger[n + j].records_processed = last.records
                ELSE /\ ledger[n + j].status = "FAILED"
                     /\ ledger[n + j].error_message # NoError

\* C10: log_refresh never raises to its caller, whatever the store rejects
\* (a failed id lookup, a duplicate id, a NULL season, a status outside the
\* CHECK list): a unit returns exactly when its insert_dataframe returned,
\* and a unit that raises re-raises the error of its fetch or insert.
C10_LogRefreshNeverRaises ==
  /\ last.op = "log" => ~last.raised
  /\ last.op = "extract"
       => /\ last.err # "log"
          /\ (last.pc = "returned") <=> (last.records # NoRecords)
          /\ (last.pc = "raised") <=> (last.err # NoError)

\* A unit whose insert succeeded returned although the store rejected the
\* INSERT of its SUCCESS entry (the id lookup failed, and id 1 was taken).
C10_Witness ==
  /\ last.op = "extract"
  /\ last.pc = "returned"
  /\ last.records > 0
  /\ last.ledgerBefore # <<>>
  /\ ledger = last.ledgerBefore

AllDone ==
  /\ mainPc = "returned"
  /\ units # <<>>
  /\ \A i \in 1..Len(units) : Terminal(units[i])

\* C7: once extract_all_data has started, it returns (it never raises), and
\* by then every unit it submitted has finished, those after a unit that
\* raised included.
C7_FailureIsolation == (mainPc = "idle") ~> AllDone

\* extract_all_data returned, and a unit submitted after one that raised
\* has returned.
C7_Witness ==
  /\ AllDone
  /\ \E i, j \in 1..Len(units) :
       /\ i < j
       /\ units[i].pc = "raised"
       /\ units[j].pc = "returned"

\* ------------------------------ SpecLedger: the ledger written and read
MaxLedger == 2

\* The keys and statuses the callers of SpecLedger log and ask for.
LedgerTables == {"weekly_stats", "rosters"}
LedgerSeasons == {1, 2}
LedgerWeeks == {NULL, 1}

InitLedger ==
  /\ EmptyStore
  /\ target = "weekly_stats"
  /\ calls = 0
  /\ last = NoCall
  /\ NoPool
  /\ ecr = NoEcr

\* log_refresh(t, season, week, 'REG', status)
LedgerLog(t, season, week, status) ==
  /\ Len(ledger) < MaxLedger
  /\ LET r == LogRefresh(ledger, t, season, week, "REG", status, NoError, 0, FALSE)
     IN /\ ledger' = r.ledger
        /\ last' = [op |-> "log", table |-> t, season |-> season,
                    status |-> status, ledgerBefore |-> ledger,
                    lookupFails |-> FALSE, raised |-> r.raised]
  /\ UNCHANGED <<ecr, tables, target, calls, poolVars>>

\* get_last_refresh(t, season, week); a call that raised would leave
\* result = Raised.
LedgerGet(t, season, week, queryFails) ==
  /\ last' = [op |-> "get", table |-> t, season |-> season, week |-> week,
              queryFails |-> queryFails, ledgerBefore |-> ledger,
              result |-> GetLastRefresh(ledger, t, season, week, queryFails)]
  /\ UNCHANGED <<ecr, storeVars, target, calls, poolVars>>

NextLedger ==
  \/ \E t \in LedgerTables, s \in LedgerSeasons, w \in LedgerWeeks, st \in Statuses :
       LedgerLog(t, s, w, st)
  \/ \E t \in LedgerTables, s \in LedgerSeasons, w \in LedgerWeeks, qf \in BOOLEAN :
       LedgerGet(t, s, w, qf)

SpecLedger == InitLedger /\ [][NextLedger]_vars

\* The stamps of the SUCCESS entries of led that P selects.
SuccessStamps(led, P(_)) ==
  {led[i].refresh_date : i \in {j \in 1..Len(led) : led[j].status = "SUCCESS" /\ P(led[j])}}

\* v is the latest of the stamps D, or NULL when there is none.
IsLatest(v, D) ==
  IF D = {} THEN v = NULL ELSE v \in D /\ \A d \in D : d <= v

\* C11 as stated: get_last_refresh(t, season, week) returns the latest
\* refresh_date among the SUCCESS entries whose table, season and week are
\* the given ones (a week of None being the key of the entries logged
\* without a week), or None when there is no such entry; it does not raise
\* and leaves the ledger as it was.
C11_LastRefreshOfKey ==
  last.op = "get"
  => /\ IsLatest(last.result,
                 SuccessStamps(last.ledgerBefore,
                               LAMBDA e : /\ e.table_name = last.table
                                          /\ e.season = last.season
                                          /\ e.week = last.week))
     /\ last.result # Raised
     /\ ledger = last.ledgerBefore

\* C11 amended: when the store answers the query, get_last_refresh returns
\* the latest refresh_date among the SUCCESS entries of the table and season
\* whose week is the given week, or of any week when no week is given, and
\* None when there is no such entry; when the store rejects the query it
\* returns None.  Entries of another status, table or season (or of another
\* week, when a week is given) do not count; the call does not raise and
\* leaves the ledger as it was.
C11_LastRefresh ==
  last.op = "get"
  => /\ IF last.queryFails THEN last.result = NULL
        ELSE IsLatest(last.result,
                      SuccessStamps(last.ledgerBefore,
                                    LAMBDA e : /\ e.table_name = last.table
                                               /\ e.season = last.season
                                               /\ (last.week # NULL => e.week = last.week)))
     /\ last.result # Raised
     /\ ledger = last.ledgerBefore

\* A query answered with the stamp of a SUCCESS entry although a FAILED
\* entry of the same key was written after it.
C11_Witness ==
  /\ last.op = "get"
  /\ last.result # NULL
  /\ \E i \in 1..Len(ledger) :
       /\ ledger[i].table_name = last.table
       /\ ledger[i].season = last.season
       /\ ledger[i].week = last.week
       /\ ledger[i].status = "FAILED"
       /\ ledger[i].refresh_date > last.result

\* ------------------------------------- claims on insert_dataframe (Spec)
\* C12: after insert_dataframe(df, t) with the default REPLACE policy has
\* returned for a non-empty batch and t = teams or players, the table holds
\* the rows of the batch, each as often as the batch has it, and no row it
\* held before; the call returns the number of rows of the batch.
C12_FullSnapshotReplace ==
  (/\ last.op = "insert"
   /\ last.table \in LookupTables
   /\ last.on_conflict = "REPLACE"
   /\ BagCardinality(last.df.rows) > 0
   /\ last.result # Raised)
  => /\ tables[last.table].exists
     /\ tables[last.table].rows
          = StoredBag(last.df.rows, last.df.cols, tables[last.table].cols)
     /\ last.df.cols = tables[last.table].cols
          => tables[last.table].rows = last.df.rows
     /\ last.result = BagCardinality(last.df.rows)

\* A replace of a lookup table that held other rows than the batch's.
C12_Witness ==
  /\ last.op = "insert"
  /\ last.table \in LookupTables
  /\ last.on_conflict = "REPLACE"
  /\ last.result # Raised
  /\ BagCardinality(last.before.rows) > 0
  /\ \E r \in DOMAIN last.before.rows : r \notin DOMAIN last.df.rows
  /\ tables[last.table].rows = last.df.rows

\* C13: a call of insert_dataframe with an empty batch returns 0, does not
\* raise, and leaves every table (existence, columns, rows) and the ledger
\* as they were, for every table name, policy and prior state.
C13_EmptyBatchNoOp ==
  [][(/\ calls' = calls + 1
      /\ last'.op = "insert"
      /\ BagCardinality(last'.df.rows) = 0)
     => /\ last'.result = 0
        /\ tables' = tables
        /\ ledger' = ledger]_vars

\* An empty batch was passed, under REPLACE, for a lookup table that holds
\* rows, and the rows are still there.
C13_Witness ==
  /\ last.op = "insert"
  /\ BagCardinality(last.df.rows) = 0
  /\ last.table \in LookupTables
  /\ last.on_conflict = "REPLACE"
  /\ BagCardinality(last.before.rows) > 0
  /\ tables[last.table] = last.before

\* The column set of a column list.
ColSet(cols) == {cols[i] : i \in 1..Len(cols)}

\* C14: the first non-empty batch for a table that does not exist creates it
\* with the batch's columns; a later insert_dataframe of a non-empty batch
\* whose column set differs from the table's raises, and every call leaves
\* the columns of an existing table as they were.
C14_SchemaFixedByFirstBatch ==
  (last.op = "insert" /\ BagCardinality(last.df.rows) > 0)
  => /\ ~last.before.exists
          => /\ tables[last.table].exists
             /\ tables[last.table].cols = last.df.cols
     /\ last.before.exists
          => /\ tables[last.table].cols = last.before.cols
             /\ ColSet(last.df.cols) # ColSet(last.before.cols)
                  => last.result = Raised

\* --------------------------- SpecCommand: the extract command of main.py
\* How the command ends (main.py:33-72): sys.exit(1) when something raised
\* inside its try block, a normal return (exit status 0) otherwise.
CommandStatus(raised) == IF raised THEN "exit_1" ELSE "exit_0"

\* The command is run on an empty store; any of the units' fetches can fail.
InitCommand ==
  /\ EmptyStore
  /\ target = "teams"
  /\ calls = 0
  /\ last = NoCall
  /\ seasons \in SeasonLists
  /\ Len(seasons) <= MaxFairSeasons
  /\ maxWorkers \in 1..MaxWorkers
  /\ units = <<>>
  /\ results = NoResults
  /\ mainPc = "idle"
  /\ down \in SUBSET UnitKeys(seasons)
  /\ run = 1
  /\ ecr = NoEcr

\* DatabaseManager(args.database) raises (main.py:37): the database cannot
\* be opened, and no unit is submitted.
ConnectFails ==
  /\ mainPc = "idle"
  /\ units = <<>>
  /\ mainPc' = CommandStatus(TRUE)
  /\ UNCHANGED <<ecr, storeVars, callVars, seasons, maxWorkers, units, results, down, run>>

\* extract_all_data returned its results (main.py:41-68): the command prints
\* them and validates the tables in them; validate_data_quality answers {}
\* when it fails, so nothing raises here, whatever results holds.
Report ==
  /\ mainPc = "returned"
  /\ mainPc' = CommandStatus(FALSE)
  /\ UNCHANGED <<ecr, storeVars, callVars, seasons, maxWorkers, units, results, down, run>>

NextCommand ==
  \/ NextPool
  \/ ConnectFails
  \/ Report

SpecCommand == InitCommand /\ [][NextCommand]_vars

\* C15: a run of the extract command whose units were submitted ends as a
\* hard error (exit status 1) exactly when no unit succeeded, that is when
\* the result map is empty; with at least one successful unit it ends
\* successfully, failed units or not.
C15_RunOutcome ==
  (mainPc \in {"exit_0", "exit_1"} /\ units # <<>>)
  => ((mainPc = "exit_1") <=> (\A t \in TableNames : results[t] = NoRecords))

\* -------------------------------------------- the order of the pipeline
\* The unit passes its batch to insert_dataframe in the step from u to v.
EntersInsert(u, v) == v.pc = "check" /\ u.pc # "check"

\* The unit starts to write its SUCCESS entries in the step from u to v.
EntersSuccessLog(u, v) ==
  /\ v.pc = "log_read"
  /\ v.phase = "SUCCESS"
  /\ u.pc \notin {"log_read", "log_write"}

\* C16: on every ingestion path the batch is fetched, then coerced by
\* _convert_dataframe_types, then persisted by insert_dataframe, and only
\* then is the outcome written to the ledger: a unit passes its batch to
\* insert_dataframe only from the coercion step ("convert"), and it starts
\* to log SUCCESS only once insert_dataframe has returned.
C16_PipelineOrder ==
  [][Len(units') = Len(units)
     => \A i \in 1..Len(units) :
          /\ EntersInsert(units[i], units'[i]) => units[i].pc = "convert"
          /\ EntersSuccessLog(units[i], units'[i])
               => /\ units'[i].records # NoRecords
                  /\ units[i].pc \in {"queued", "insert"}]_vars

\* ---------------------------------- the Format Normalizer (ecr_extractor.py)
\* A cell of a spreadsheet: a number, a missing value (NaN / None), a text
\* that is not a number ("N/A"), or a text that spells a number ("3").
Num(n) == [kind |-> "num", val |-> n]
NaN == [kind |-> "nan", val |-> 0]
Text == [kind |-> "text", val |-> 0]
NumText(n) == [kind |-> "numtext", val |-> n]

IsNa(c) == c.kind = "nan"

\* pd.to_numeric(series, errors='coerce') on one cell.
ToNumeric(c) == IF c.kind \in {"num", "numtext"} THEN Num(c.val) ELSE NaN

\* A player cell: a string (a sequence of characters) or a missing value.
Str(chars) == [kind |-> "str", chars |-> chars]
NoStr == [kind |-> "nan", chars |-> <<>>]

\* [A-Z] and \s over the characters the model's names are written with.
UpperChars == {"C", "F", "J", "R", "S"}
SpaceChars == {" "}

RECURSIVE LStrip(_)
LStrip(s) == IF s # <<>> /\ Head(s) \in SpaceChars THEN LStrip(Tail(s)) ELSE s

RECURSIVE RStrip(_)
RStrip(s) ==
  IF s # <<>> /\ s[Len(s)] \in SpaceChars THEN RStrip(SubSeq(s, 1, Len(s) - 1)) ELSE s

\* str.strip()
Strip(s) == RStrip(LStrip(s))

\* The lengths k of a team code that ends s: the last k characters are
\* upper-case letters, 2 <= k <= 4.
TeamLens(s) ==
  {k \in 2..4 : k <= Len(s) /\ \A j \in (Len(s) - k + 1)..Len(s) : s[j] \in UpperChars}

\* re.match(r'^(.+?)\s*\(([A-Z]{2,4})\)$', s): the lengths k for which s is
\* a non-empty prefix, "(", k upper-case letters, ")".
ParenLens(s) ==
  {k \in TeamLens(SubSeq(s, 1, Len(s) - 1)) :
     /\ s[Len(s)] = ")"
     /\ Len(s) - k - 2 >= 1
     /\ s[Len(s) - k - 1] = "("}

\* re.match(r'^(.+?)\s+([A-Z]{2,4})$', s): the lengths k for which s is a
\* non-empty prefix, white space, k upper-case letters.
SpaceLens(s) ==
  {k \in TeamLens(s) :
     /\ Len(s) - k - 1 >= 1
     /\ s[Len(s) - k] \in SpaceChars}

\* An extraction that knows the 'Name (TEAM)' form only.
ExtractPlayerName_ParenOnly(p) ==
  IF p.kind # "str" THEN <<>>
  ELSE LET s == Strip(p.chars)
       IN IF s # <<>> /\ ParenLens(s) # {}
          THEN LET k == CHOOSE x \in ParenLens(s) : TRUE
               IN Strip(SubSeq(s, 1, Len(s) - k - 2))
          ELSE s

\* extract_player_info(cell)[0] (ecr_extractor.py:131-148): the lazy first
\* group takes the prefix up to the white space before the team code, and
\* the group is stripped.  The second component is "" on every path.
ExtractPlayerName(p) ==
  IF p.kind # "str" THEN <<>>
  ELSE LET s == Strip(p.chars)
       IN IF s # <<>> /\ ParenLens(s) # {}
          THEN LET k == CHOOSE x \in ParenLens(s) : TRUE
               IN Strip(SubSeq(s, 1, Len(s) - k - 2))
          ELSE IF SpaceLens(s) # {}
          THEN LET k == CHOOSE x \in SpaceLens(s) : TRUE
               IN Strip(SubSeq(s, 1, Len(s) - k))
          ELSE s

ExtractPlayerPosition(p) == <<>>

\* calculate_adp_from_vs_adp(rank, vs_adp) (ecr_extractor.py:161-171):
\* float(vs_adp) raises on a text that is no number.
CalculateAdp(rank, vs_adp) ==
  IF IsNa(rank) \/ IsNa(vs_adp) THEN NaN
  ELSE IF vs_adp.kind = "text" \/ rank.kind = "text" THEN NaN
  ELSE Num(rank.val - vs_adp.val)

\* A parsed file, after normalize_column_names: whether its name has a
\* 4-digit year, whether it can be read, the canonical columns it has, and
\* its rows [player_name, rank, adp, vs_adp] (a column the file does not
\* have is missing in every row).
EcrCols == {"player_name", "rank", "adp", "vs_adp"}

\* A record whose rank is the file's entry, missing or not.
EcrRecord_KeepsMissingRank(f, i) ==
  LET r == f.rows[i]
      rank == IF "rank" \in f.cols THEN ToNumeric(r.rank) ELSE Num(i)
  IN [idx |-> i - 1,
      player_name |-> IF "player_name" \in f.cols
                      THEN ExtractPlayerName(r.player_name) ELSE <<>>,
      position |-> IF "player_name" \in f.cols
                   THEN ExtractPlayerPosition(r.player_name) ELSE <<>>,
      rank |-> rank,
      adp |-> IF "adp" \in f.cols THEN r.adp
              ELSE IF "vs_adp" \in f.cols THEN CalculateAdp(rank, r.vs_adp)
              ELSE NaN,
      vs_adp |-> IF "vs_adp" \in f.cols THEN r.vs_adp ELSE NaN]

\* The record process_ecr_file makes of row i of the file f
\* (ecr_extractor.py:233-282); idx is the row's label in the DataFrame.
EcrRecord(f, i) ==
  LET r == f.rows[i]
      rank == IF "rank" \in f.cols
              THEN IF IsNa(ToNumeric(r.rank)) THEN Num(i) ELSE ToNumeric(r.rank)
              ELSE Num(i)
  IN [idx |-> i - 1,
      player_name |-> IF "player_name" \in f.cols
                      THEN ExtractPlayerName(r.player_name) ELSE <<>>,
      position |-> IF "player_name" \in f.cols
                   THEN ExtractPlayerPosition(r.player_name) ELSE <<>>,
      rank |-> rank,
      adp |-> IF "adp" \in f.cols THEN r.adp
              ELSE IF "vs_adp" \in f.cols THEN CalculateAdp(rank, r.vs_adp)
              ELSE NaN,
      vs_adp |-> IF "vs_adp" \in f.cols THEN r.vs_adp ELSE NaN]

\* The row filter of ecr_extractor.py:285-290: the player name is not
\* empty after strip() and is not the text "nan".
Usable(rec) == Strip(rec.player_name) \notin {<<>>, <<"n", "a", "n">>}

\* process_ecr_file(f): the DataFrame it returns, as the sequence of its
\* records; <<>> is the empty DataFrame it returns when the name has no
\* year, when the file cannot be read, and when the file has no row.
ProcessEcrFile(f) ==
  IF ~f.hasYear \/ ~f.readable \/ f.rows = <<>> THEN <<>>
  ELSE SelectSeq([i \in 1..Len(f.rows) |-> EcrRecord(f, i)], Usable)

\* ------------------------------------- SpecEcr: a run of refresh_raw_ecr
MaxFiles == 3
MaxEcrRows == 2

EcrRow(p, r, a, v) == [player_name |-> p, rank |-> r, adp |-> a, vs_adp |-> v]

EcrFile(hasYear, readable, cols, rows) ==
  [hasYear |-> hasYear, readable |-> readable, cols |-> cols, rows |-> rows]

\* The cells of the files the model reads.
PlayerCells == {Str(<<"J", "o", " ", "(", "S", "F", ")">>), Str(<<>>), NoStr}
RankCells == {Num(2), Text, NaN}
AdpCells == {Num(1), NaN}
VsAdpCells == {Num(1), Text, NaN}

\* The rows a file with the columns cols can have.
EcrRowsOf(cols) ==
  {EcrRow(p, r, a, v) :
     p \in IF "player_name" \in cols THEN PlayerCells ELSE {NoStr},
     r \in IF "rank" \in cols THEN RankCells ELSE {NaN},
     a \in IF "adp" \in cols THEN AdpCells ELSE {NaN},
     v \in IF "vs_adp" \in cols THEN VsAdpCells ELSE {NaN}}

Jo == Str(<<"J", "o", " ", "S", "F">>)

\* The files of the runs over several files: two files that yield records
\* (the first spells its numbers as text, the second has a row that is
\* dropped), a file without a year in its name, a file that cannot be read,
\* a file of which no row is usable, and a file without rows.
SampleFiles ==
  {EcrFile(TRUE, TRUE, {"player_name", "rank", "vs_adp"},
           <<EcrRow(Jo, NumText(3), NaN, NumText(1))>>),
   EcrFile(TRUE, TRUE, {"player_name", "rank"},
           <<EcrRow(Str(<<"n", "a", "n">>), Num(1), NaN, NaN), EcrRow(Jo, Num(2), NaN, NaN)>>),
   EcrFile(FALSE, TRUE, {"player_name"}, <<EcrRow(Jo, NaN, NaN, NaN)>>),
   EcrFile(TRUE, FALSE, {}, <<>>),
   EcrFile(TRUE, TRUE, {"player_name"}, <<EcrRow(Str(<<" ">>), NaN, NaN, NaN)>>),
   EcrFile(TRUE, TRUE, {}, <<>>)}

\* A row of raw_ecr_rankings: a record without its DataFrame label.
StoredRecord(rec) ==
  [player_name |-> rec.player_name, position |-> rec.position, rank |-> rec.rank,
   adp |-> rec.adp, vs_adp |-> rec.vs_adp]

\* pd.concat(all_data, ignore_index=True), as rows to store.
Combined(all_data) ==
  LET recs == Flatten(all_data) IN [i \in 1..Len(recs) |-> StoredRecord(recs[i])]

\* raw_ecr_rankings as an earlier run left it, and the table missing.
NoEcrTable == [exists |-> FALSE, rows |-> <<>>]
OldEcrTable ==
  [exists |-> TRUE,
   rows |-> <<[player_name |-> <<"O", "l", "d">>, position |-> <<>>, rank |-> Num(1),
               adp |-> NaN, vs_adp |-> NaN]>>]

\* What refresh_raw_ecr returns: an error dict, a results dict, or it
\* raises; NoEcrResult while it runs.
NoEcrResult ==
  [kind |-> "none", error |-> "", total_records |-> 0, processed_files |-> 0,
   failed_files |-> 0]
EcrError(msg) == [NoEcrResult EXCEPT !.kind = "error", !.error = msg]
EcrRaised == [NoEcrResult EXCEPT !.kind = "raised"]
EcrResults(total, processed, failed) ==
  [kind |-> "ok", error |-> "", total_records |-> total, processed_files |-> processed,
   failed_files |-> failed]

\* refresh_raw_ecr is about to run over the files, with raw_ecr_rankings as
\* table (before: the table as the run found it); rejects: whether the store
\* rejects the INSERT of the combined batch.
NewEcr(files, table, rejects) ==
  [pc |-> "start", files |-> files, i |-> 0, all_data |-> <<>>,
   processed_files |-> 0, failed_files |-> 0, out |-> <<>>,
   result |-> NoEcrResult, table |-> table, before |-> table, rejects |-> rejects,
   status |-> "running"]

\* data/raw_ecr as refresh_raw_ecr finds it, sorted(glob("FantasyPros_*.xl*")):
\* up to MaxFiles of the sample files, or one readable file with a year in
\* its name and 1..MaxEcrRows rows of any content.
InitEcr ==
  /\ EmptyStore
  /\ target = "teams"
  /\ calls = 0
  /\ last = NoCall
  /\ NoPool
  /\ \/ \E n \in 0..MaxFiles :
          \E files \in [1..n -> SampleFiles], table \in {NoEcrTable, OldEcrTable},
             rejects \in BOOLEAN :
            ecr = NewEcr(files, table, rejects)
     \/ \E cols \in SUBSET EcrCols, n \in 1..MaxEcrRows :
          \E rows \in [1..n -> EcrRowsOf(cols)] :
            ecr = NewEcr(<<EcrFile(TRUE, TRUE, cols, rows)>>, NoEcrTable, FALSE)

ecrFrame == <<tables, ledger, target, calls, last, poolVars>>

\* A run that starts with the glob and drops nothing.
EcrBegin_NoDrop ==
  /\ ecr.pc = "start"
  /\ ecr' = IF ecr.files = <<>>
            THEN [ecr EXCEPT !.pc = "done", !.result = EcrError("No ECR files found")]
            ELSE [ecr EXCEPT !.pc = "loop", !.i = 1]
  /\ UNCHANGED ecrFrame

\* DROP TABLE IF EXISTS raw_ecr_rankings, then the glob
\* (ecr_extractor.py:316-334).
EcrBegin ==
  /\ ecr.pc = "start"
  /\ ecr' = IF ecr.files = <<>>
            THEN [ecr EXCEPT !.table = NoEcrTable, !.pc = "done",
                             !.result = EcrError("No ECR files found")]
            ELSE [ecr EXCEPT !.table = NoEcrTable, !.pc = "loop", !.i = 1]
  /\ UNCHANGED ecrFrame

\* A loop that one file's failure ends.
EcrNextFile_StopsAtFailure ==
  /\ ecr.pc = "loop"
  /\ ecr.i <= Len(ecr.files)
  /\ LET df == ProcessEcrFile(ecr.files[ecr.i])
     IN ecr' = IF df # <<>>
               THEN [ecr EXCEPT !.all_data = Append(ecr.all_data, df), !.out = df,
                                !.processed_files = ecr.processed_files + 1,
                                !.i = ecr.i + 1]
               ELSE [ecr EXCEPT !.failed_files = ecr.failed_files + 1, !.out = df,
                                !.i = Len(ecr.files) + 1]
  /\ UNCHANGED ecrFrame

\* One turn of the loop over the files (ecr_extractor.py:341-352); out is
\* the DataFrame process_ecr_file returned.
EcrNextFile ==
  /\ ecr.pc = "loop"
  /\ ecr.i <= Len(ecr.files)
  /\ LET df == ProcessEcrFile(ecr.files[ecr.i])
     IN ecr' = IF df # <<>>
               THEN [ecr EXCEPT !.all_data = Append(ecr.all_data, df), !.out = df,
                                !.processed_files = ecr.processed_files + 1,
                                !.i = ecr.i + 1]
               ELSE [ecr EXCEPT !.failed_files = ecr.failed_files + 1, !.out = df,
                                !.i = ecr.i + 1]
  /\ UNCHANGED ecrFrame

\* A run that gives the error dict as soon as one file failed.
EcrFinish_ErrorOnAnyFailure ==
  /\ ecr.pc = "loop"
  /\ ecr.i > Len(ecr.files)
  /\ ecr' = IF ecr.all_data = <<>> \/ ecr.failed_files > 0
            THEN [ecr EXCEPT !.pc = "done", !.result = EcrError("No data processed")]
            ELSE IF ecr.rejects
            THEN [ecr EXCEPT !.pc = "done", !.result = EcrRaised,
                             !.table = [exists |-> TRUE, rows |-> <<>>]]
            ELSE [ecr EXCEPT !.pc = "done",
                             !.table = [exists |-> TRUE, rows |-> Combined(ecr.all_data)],
                             !.result = EcrResults(Len(Combined(ecr.all_data)),
                                                   ecr.processed_files, ecr.failed_files)]
  /\ UNCHANGED ecrFrame

\* After the loop (ecr_extractor.py:354-382): the error dict when no file
\* gave records; else insert_dataframe(combined_df, 'raw_ecr_rankings'),
\* which creates the dropped table and inserts, and the results dict.  When
\* the store rejects the INSERT, insert_dataframe raises and so does
\* refresh_raw_ecr.
EcrFinish ==
  /\ ecr.pc = "loop"
  /\ ecr.i > Len(ecr.files)
  /\ ecr' = IF ecr.all_data = <<>>
            THEN [ecr EXCEPT !.pc = "done", !.result = EcrError("No data processed")]
            ELSE IF ecr.rejects
            THEN [ecr EXCEPT !.pc = "done", !.result = EcrRaised,
                             !.table = [exists |-> TRUE, rows |-> <<>>]]
            ELSE [ecr EXCEPT !.pc = "done",
                             !.table = [exists |-> TRUE, rows |-> Combined(ecr.all_data)],
                             !.result = EcrResults(Len(Combined(ecr.all_data)),
                                                   ecr.processed_files, ecr.failed_files)]
  /\ UNCHANGED ecrFrame

\* The refresh_raw_ecr command of main.py (main.py:215-249): sys.exit(1) on
\* an error dict and on an exception.
EcrCommandEnds ==
  /\ ecr.pc = "done"
  /\ ecr' = [ecr EXCEPT !.pc = "exited",
                        !.status = IF ecr.result.kind = "ok" THEN "exit_0" ELSE "exit_1"]
  /\ UNCHANGED ecrFrame

NextEcr ==
  \/ EcrBegin
  \/ EcrNextFile
  \/ EcrFinish
  \/ EcrCommandEnds

SpecEcr == InitEcr /\ [][NextEcr]_vars

\* ----------------------------------------------- claims under SpecEcr
\* A row of a file whose player cell gives a name: a string that is not
\* blank and not the text "nan".
NamedRow(r) ==
  /\ r.player_name.kind = "str"
  /\ Strip(r.player_name.chars) \notin {<<>>, <<"n", "a", "n">>}

\* A file that fails: no 4-digit year in its name, not readable, or no
\* usable row (no row, no player column, or no row with a name).
FailsFile(f) ==
  \/ ~f.hasYear
  \/ ~f.readable
  \/ "player_name" \notin f.cols
  \/ \A i \in 1..Len(f.rows) : ~NamedRow(f.rows[i])

\* The files among the first n that fail.
FailedAmong(files, n) == {j \in 1..n : FailsFile(files[j])}

\* The rows a file that does not fail gives: one for each named row.
NamedRows(f) == SelectSeq(f.rows, NamedRow)

RECURSIVE SumLen(_)
SumLen(ss) == IF ss = <<>> THEN 0 ELSE Len(Head(ss)) + SumLen(Tail(ss))

EcrReturned == ecr.pc \in {"done", "exited"}

\* C17: over k files of which m fail, each file handled so far is counted
\* once, as processed or as failed; the loop goes on to the last file
\* whatever fails; and when m < k and the store takes the combined batch,
\* refresh_raw_ecr stores the records of the k - m other files, one for
\* each named row, and reports failed_files = m and processed_files = k - m.
\* (When the store rejects the batch refresh_raw_ecr raises and reports
\* nothing.)
C17_PartialFailureTolerance ==
  ecr.pc \in {"loop", "done", "exited"} /\ ecr.files # <<>>
  => LET k == Len(ecr.files)
         n == ecr.i - 1
         m == Cardinality(FailedAmong(ecr.files, k))
         good == SelectSeq(ecr.files, LAMBDA f : ~FailsFile(f))
     IN /\ ecr.failed_files = Cardinality(FailedAmong(ecr.files, n))
        /\ ecr.processed_files = n - ecr.failed_files
        /\ Len(ecr.all_data) = ecr.processed_files
        /\ EcrReturned => n = k
        /\ (EcrReturned /\ m < k)
             => IF ecr.rejects THEN ecr.result = EcrRaised
                ELSE /\ ecr.result.kind = "ok"
                     /\ ecr.result.failed_files = m
                     /\ ecr.result.processed_files = k - m
                     /\ ecr.result.total_records = Len(ecr.table.rows)
                     /\ Len(ecr.table.rows)
                          = SumLen([j \in 1..Len(good) |-> NamedRows(good[j])])
                     /\ ecr.table.rows = Combined(ecr.all_data)

\* Three files of which the second fails: the third is processed, and the
\* run reports failed_files = 1 and processed_files = 2.
C17_Witness ==
  /\ EcrReturned
  /\ Len(ecr.files) = 3
  /\ FailedAmong(ecr.files, 3) = {2}
  /\ ecr.result.kind = "ok"
  /\ ecr.result.failed_files = 1
  /\ ecr.result.processed_files = 2
  /\ Len(ecr.table.rows) = ecr.result.total_records

\* C18: refresh_raw_ecr returns the results dict (and the command ends with
\* status 0) exactly when at least one file gave records, the store taking
\* the combined batch; it returns an error dict, with nothing inserted (and
\* the command ends with status 1), when no file is found and when files
\* exist but none gave records.
C18_SucceedsIffSomeFileYields ==
  EcrReturned
  => LET k == Len(ecr.files)
         some == FailedAmong(ecr.files, k) # 1..k
     IN /\ (some /\ ~ecr.rejects)
             => /\ ecr.result.kind = "ok"
                /\ ecr.result.total_records > 0
                /\ ecr.pc = "exited" => ecr.status = "exit_0"
        /\ ecr.result.kind = "ok" => some
        /\ ~some
             => /\ ecr.result.kind = "error"
                /\ ecr.result.error
                     = IF k = 0 THEN "No ECR files found" ELSE "No data processed"
                /\ ~ecr.table.exists
                /\ ecr.pc = "exited" => ecr.status = "exit_1"

\* A run over files of which one failed and one gave records ended with
\* status 0.
C18_Witness ==
  /\ ecr.pc = "exited"
  /\ ecr.status = "exit_0"
  /\ ecr.result.failed_files > 0
  /\ ecr.result.processed_files > 0

\* process_ecr_file has just returned ecr.out for the file EcrLastFile.
EcrFileDone == ecr.pc \in {"loop", "done", "exited"} /\ ecr.i > 1

EcrLastFile == ecr.files[ecr.i - 1]

\* C19 as stated: the records process_ecr_file returns for a file with no
\* rank column have the ranks 1, 2, ... in order, the 1-based row position,
\* with no gaps; and no returned record has a null rank.
C19_RankDefaultNoGaps ==
  EcrFileDone
  => /\ "rank" \notin EcrLastFile.cols
          => \A j \in 1..Len(ecr.out) :
               /\ ecr.out[j].rank = Num(ecr.out[j].idx + 1)
               /\ ecr.out[j].rank = Num(j)
     /\ \A j \in 1..Len(ecr.out) : ecr.out[j].rank.kind = "num"

\* C19 amended: for a file with no rank column, each returned record has
\* the 1-based position of its row in the file as parsed, rows that were
\* dropped for their player name counted, so the ranks are strictly
\* increasing, and they are 1, 2, ... without gaps when no row was dropped;
\* in every returned record the rank is a number, the row's position
\* standing in for a rank entry that is missing or no number.
C19_RankDefault ==
  EcrFileDone
  => LET f == EcrLastFile
         out == ecr.out
     IN /\ "rank" \notin f.cols
             => /\ \A j \in 1..Len(out) : out[j].rank = Num(out[j].idx + 1)
                /\ \A j \in 1..(Len(out) - 1) : out[j].rank.val < out[j + 1].rank.val
                /\ Len(out) = Len(f.rows) => \A j \in 1..Len(out) : out[j].rank = Num(j)
        /\ \A j \in 1..Len(out) :
             /\ out[j].rank.kind = "num"
             /\ out[j].idx + 1 \in 1..Len(f.rows)
             /\ ("rank" \in f.cols /\ f.rows[out[j].idx + 1].rank.kind \in {"nan", "text"})
                  => out[j].rank = Num(out[j].idx + 1)

\* A file with two rows and no rank column, both rows returned, with the
\* ranks 1 and 2.
C19_Witness ==
  /\ EcrFileDone
  /\ "rank" \notin EcrLastFile.cols
  /\ Len(EcrLastFile.rows) = 2
  /\ Len(ecr.out) = 2
  /\ ecr.out[1].rank = Num(1)
  /\ ecr.out[2].rank = Num(2)

\* The number a cell holds, for a number and for a text that spells one.
IsNumeric(c) == c.kind \in {"num", "numtext"}

\* C20: every record process_ecr_file returns in which adp and vs_adp are
\* both present has adp = rank - vs_adp; for a file with only a vs_adp
\* column, adp is rank - vs_adp where vs_adp is numeric; and with neither
\* an adp column nor a numeric vs_adp, adp is null.
C20_AdpIdentity ==
  EcrFileDone
  => LET f == EcrLastFile
     IN \A j \in 1..Len(ecr.out) :
          LET rec == ecr.out[j]
          IN /\ (IsNumeric(rec.adp) /\ IsNumeric(rec.vs_adp))
                  => rec.adp.val = rec.rank.val - rec.vs_adp.val
             /\ ("adp" \notin f.cols /\ "vs_adp" \in f.cols /\ IsNumeric(rec.vs_adp))
                  => rec.adp = Num(rec.rank.val - rec.vs_adp.val)
             /\ ("adp" \notin f.cols /\ ~IsNumeric(rec.vs_adp)) => rec.adp = NaN

\* ------------------- SpecPlayerInfo: extract_player_info called on a cell
MaxNameLen == 6

\* The characters of the cells: a lower-case letter, an upper-case letter,
\* a blank and the two parentheses.
NameChars == {"o", "S", " ", "(", ")"}

\* A player cell of a parsed row: a string of up to MaxNameLen characters,
\* or a missing value.
InitPlayerInfo ==
  /\ EmptyStore
  /\ target = "teams"
  /\ calls = 0
  /\ NoPool
  /\ ecr = NoEcr
  /\ \/ last = [op |-> "cell", arg |-> NoStr]
     \/ \E n \in 0..MaxNameLen :
          \E chars \in [1..n -> NameChars] : last = [op |-> "cell", arg |-> Str(chars)]

\* clean_name, position = self.extract_player_info(cell)
\* (ecr_extractor.py:121-148, called at 242).
CallExtractPlayerInfo ==
  /\ last.op = "cell"
  /\ last' = [op |-> "extract_player_info", arg |-> last.arg,
              name |-> ExtractPlayerName(last.arg),
              position |-> ExtractPlayerPosition(last.arg)]
  /\ UNCHANGED <<tables, ledger, target, calls, poolVars, ecr>>

NextPlayerInfo == CallExtractPlayerInfo

SpecPlayerInfo == InitPlayerInfo /\ [][NextPlayerInfo]_vars

\* t is a team code: 2 to 4 upper-case letters.
IsTeam(t) == Len(t) \in 2..4 /\ \A j \in 1..Len(t) : t[j] \in UpperChars

\* s is n, white space (ws: at least one blank), the team code in
\* parentheses (paren) or bare, for a name n that is not empty and neither
\* starts nor ends with a blank.
Splits(s, n, paren) ==
  /\ n # <<>> /\ n = Strip(n)
  /\ Len(n) < Len(s)
  /\ SubSeq(s, 1, Len(n)) = n
  /\ \E b \in Len(n)..Len(s) :
       /\ \A j \in (Len(n) + 1)..b : s[j] \in SpaceChars
       /\ IF paren
          THEN /\ b + 2 < Len(s)
               /\ s[b + 1] = "(" /\ s[Len(s)] = ")"
               /\ IsTeam(SubSeq(s, b + 2, Len(s) - 1))
          ELSE /\ b > Len(n)
               /\ IsTeam(SubSeq(s, b + 1, Len(s)))

\* The prefixes of s.
Prefixes(s) == {SubSeq(s, 1, k) : k \in 0..Len(s)}

\* C21: extract_player_info gives, for a string of the form 'Name (TEAM)'
\* and else for one of the form 'Name TEAM', the name without the team
\* code; a string of neither form comes back trimmed and otherwise
\* unchanged; and the position is empty on every input.
C21_PlayerNameExtraction ==
  last.op = "extract_player_info"
  => /\ last.position = <<>>
     /\ last.arg.kind = "str"
        => LET s == Strip(last.arg.chars)
               parens == {n \in Prefixes(s) : Splits(s, n, TRUE)}
               spaces == {n \in Prefixes(s) : Splits(s, n, FALSE)}
           IN /\ parens # {} => last.name \in parens
              /\ (parens = {} /\ spaces # {}) => last.name \in spaces
              /\ (parens = {} /\ spaces = {}) => last.name = s

\* ' o  SS ' has given 'o', and 'o(SS)' has the first form.
C21_Witness ==
  /\ last.op = "extract_player_info"
  /\ last.arg = Str(<<" ", "o", " ", "S", "S", " ">>)
  /\ last.name = <<"o">>
  /\ last.position = <<>>

\* ----------------------------- the Type Resolver (_convert_dataframe_types)
\* A value of a batch column: a null (NaN, NA, NaT), an integer, a number
\* num + 1/2, a string, a boolean, and, after conversion, a date or a
\* timestamp parsed from the text txt.
Null == [kind |-> "null", num |-> 0, txt |-> ""]
IntCell(n) == [kind |-> "int", num |-> n, txt |-> ""]
FracCell(n) == [kind |-> "frac", num |-> n, txt |-> ""]
StrCell(t) == [kind |-> "str", num |-> 0, txt |-> t]
BoolCell(b) == [kind |-> "bool", num |-> IF b THEN 1 ELSE 0, txt |-> ""]
DateCell(t) == [kind |-> "date", num |-> 0, txt |-> t]
TsCell(t) == [kind |-> "ts", num |-> 0, txt |-> t]

Column(name, cells) == [name |-> name, cells |-> cells]

\* The dtype pandas gives a column of these values.
Dtype(cells) ==
  IF \A i \in 1..Len(cells) : cells[i].kind = "int" THEN "int64"
  ELSE IF \A i \in 1..Len(cells) : cells[i].kind \in {"int", "frac", "null"} THEN "float64"
  ELSE IF \A i \in 1..Len(cells) : cells[i].kind = "bool" THEN "bool"
  ELSE "object"

\* SchemaGenerator.column_type_overrides, for the column names of the model,
\* and SchemaGenerator.type_mapping.
ColumnTypeOverrides ==
  [season |-> "INTEGER", passing_yards |-> "REAL", fumble |-> "BOOLEAN",
   game_date |-> "DATE", datetime |-> "TIMESTAMP", gametime |-> "TIME", team |-> "TEXT"]

TypeMapping ==
  [object |-> "TEXT", int64 |-> "INTEGER", float64 |-> "REAL", bool |-> "BOOLEAN"]

\* get_sql_type(pandas_type, column_name) (schema_generator.py:594-610)
GetSqlType(dtype, name) ==
  IF name \in DOMAIN ColumnTypeOverrides THEN ColumnTypeOverrides[name]
  ELSE IF dtype \in DOMAIN TypeMapping THEN TypeMapping[dtype]
  ELSE "TEXT"

\* str(n) for the integers of the model.
Digits(n) == CASE n = 0 -> "0" [] n = 1 -> "1" [] n = 2 -> "2" [] n = 3 -> "3" [] OTHER -> "9"

\* str(n + 1/2).
HalfDigits(n) ==
  CASE n = 0 -> "0.5" [] n = 1 -> "1.5" [] n = 2 -> "2.5" [] n = 3 -> "3.5" [] OTHER -> "9.5"

\* str(float(n)).
FloatDigits(n) ==
  CASE n = 0 -> "0.0" [] n = 1 -> "1.0" [] n = 2 -> "2.0" [] n = 3 -> "3.0" [] OTHER -> "9.0"

\* series.astype(str) on one value of a column of the given dtype.
AsStr(c, dtype) ==
  CASE c.kind = "null" -> "nan"
    [] c.kind = "int" -> IF dtype = "float64" THEN FloatDigits(c.num) ELSE Digits(c.num)
    [] c.kind = "frac" -> HalfDigits(c.num)
    [] c.kind = "bool" -> IF c.num = 1 THEN "True" ELSE "False"
    [] OTHER -> c.txt

\* str.lower() on the texts of the model.
Lower(t) ==
  CASE t = "Y" -> "y" [] t = "YES" -> "yes" [] t = "No" -> "no" [] t = "N" -> "n"
    [] t = "True" -> "true" [] t = "False" -> "false" [] t = "None" -> "none"
    [] OTHER -> t

\* pd.to_numeric(series, errors='coerce') on one value of an object column.
ToNumericCell(c) ==
  CASE c.kind \in {"int", "frac", "null"} -> c
    [] c.kind = "bool" -> IntCell(c.num)
    [] c.kind = "str" ->
         CASE c.txt = "0" -> IntCell(0) [] c.txt = "1" -> IntCell(1)
           [] c.txt = "2" -> IntCell(2) [] c.txt = "3" -> IntCell(3)
           [] c.txt = "3.5" -> FracCell(3)
           [] OTHER -> Null
    [] OTHER -> Null

\* The texts pd.to_datetime parses.
DateTexts == {"2020-09-10"}

\* pd.to_datetime(series, errors='coerce') on one value of an object column.
ToDatetimeCell(c) ==
  CASE c.kind = "str" -> IF c.txt \in DateTexts THEN TsCell(c.txt) ELSE Null
    [] c.kind \in {"int", "frac"} -> TsCell("1970-01-01")
    [] OTHER -> Null

\* What a conversion gives: the new cells, or the exception it raised.
Converted(cells) == [raised |-> FALSE, cells |-> cells]
ConversionRaised == [raised |-> TRUE, cells |-> <<>>]

OverCells(cells, F(_)) == [i \in 1..Len(cells) |-> F(cells[i])]

\* safe_int_convert (manager.py:92-100): astype('Int64') raises on a number
\* that is no integer.
SafeIntConvert(cells) ==
  LET nums == IF Dtype(cells) = "object" THEN OverCells(cells, ToNumericCell) ELSE cells
      Int64(c) == IF c.kind = "bool" THEN IntCell(c.num) ELSE c
  IN IF \E i \in 1..Len(nums) : nums[i].kind = "frac" THEN ConversionRaised
     ELSE Converted(OverCells(nums, Int64))

\* safe_float_convert (manager.py:102-110)
SafeFloatConvert(cells) ==
  LET nums == IF Dtype(cells) = "object" THEN OverCells(cells, ToNumericCell) ELSE cells
      Float64(c) == IF c.kind = "bool" THEN IntCell(c.num) ELSE c
  IN Converted(OverCells(nums, Float64))

\* safe_date_convert (manager.py:112-116)
SafeDateConvert(cells) ==
  LET date(c) == LET t == ToDatetimeCell(c)
                 IN IF t.kind = "ts" THEN DateCell(t.txt) ELSE t
  IN IF Dtype(cells) = "object" THEN Converted(OverCells(cells, date)) ELSE Converted(cells)

\* safe_datetime_convert (manager.py:118-122)
SafeDatetimeConvert(cells) ==
  IF Dtype(cells) = "object" THEN Converted(OverCells(cells, ToDatetimeCell))
  ELSE Converted(cells)

\* The dict of series.replace in safe_bool_convert (manager.py:129-135).
TrueTokens == {"true", "1", "yes", "y"}
FalseTokens == {"false", "0", "no", "n"}
NullTokens == {"nan", "none", ""}

\* safe_bool_convert (manager.py:124-137): astype('boolean') raises on a
\* value that is neither a boolean, 0, 1 nor null.
SafeBoolConvert(cells) ==
  IF Dtype(cells) = "object"
  THEN LET d == Dtype(cells)
           repl(c) == LET t == Lower(AsStr(c, d))
                      IN IF t \in TrueTokens THEN BoolCell(TRUE)
                         ELSE IF t \in FalseTokens THEN BoolCell(FALSE)
                         ELSE IF t \in NullTokens THEN Null
                         ELSE StrCell(t)
           replaced == OverCells(cells, repl)
       IN IF \E i \in 1..Len(replaced) : replaced[i].kind = "str" THEN ConversionRaised
          ELSE Converted(replaced)
  ELSE IF \E i \in 1..Len(cells) :
            cells[i].kind = "frac" \/ (cells[i].kind = "int" /\ cells[i].num \notin {0, 1})
       THEN ConversionRaised
       ELSE LET bool(c) == IF c.kind = "null" THEN Null ELSE BoolCell(c.num = 1)
            IN Converted(OverCells(cells, bool))

\* The TIME branch (manager.py:156-160).
TimeConvert(cells) ==
  LET d == Dtype(cells)
      str(c) == IF AsStr(c, d) = "nan" THEN Null ELSE StrCell(AsStr(c, d))
  IN IF d = "object" THEN Converted(OverCells(cells, str)) ELSE Converted(cells)

\* The TEXT branch (manager.py:163-168).
TextConvert(cells) ==
  LET d == Dtype(cells)
      str(c) == IF AsStr(c, d) \in {"nan", "None", ""} THEN Null ELSE StrCell(AsStr(c, d))
  IN Converted(OverCells(cells, str))

\* One turn of the loop over the columns (manager.py:140-173): the metadata
\* columns are skipped, and a column whose conversion raises is kept as it
\* is.  (The last loop, manager.py:176-179, turns int64 into Int64, which
\* changes no value.)
ConvertColumn(col) ==
  IF col.name \in {"created_at", "updated_at"} THEN col
  ELSE LET expected_type == GetSqlType(Dtype(col.cells), col.name)
           conv == CASE expected_type = "INTEGER" -> SafeIntConvert(col.cells)
                     [] expected_type = "REAL" -> SafeFloatConvert(col.cells)
                     [] expected_type = "DATE" -> SafeDateConvert(col.cells)
                     [] expected_type = "TIMESTAMP" -> SafeDatetimeConvert(col.cells)
                     [] expected_type = "TIME" -> TimeConvert(col.cells)
                     [] expected_type = "BOOLEAN" -> SafeBoolConvert(col.cells)
                     [] expected_type = "TEXT" -> TextConvert(col.cells)
                     [] OTHER -> Converted(col.cells)
       IN IF conv.raised THEN col ELSE Column(col.name, conv.cells)

\* df.empty: no column or no row.
DfEmpty(df) == df = <<>> \/ df[1].cells = <<>>

\* _convert_dataframe_types(df, table_name) (manager.py:75-181), df being
\* the columns of the batch from left to right.
ConvertDataframeTypes(df) ==
  IF DfEmpty(df) THEN df ELSE [i \in 1..Len(df) |-> ConvertColumn(df[i])]

\* --------------- SpecConvert: _convert_dataframe_types called on a batch
MaxColLen == 2

ConvTexts ==
  {"Y", "1", "true", "YES", "n", "0", "false", "No", "", "nan", "none",
   "maybe", "3", "3.5", "abc", "2020-09-10"}

\* The values of the batches, and the columns: the names with an override
\* for each storage type, and a name without one.
ConvCells ==
  {Null, IntCell(0), IntCell(1), IntCell(3), FracCell(3)}
    \cup {StrCell(t) : t \in ConvTexts}
BoolCells == {BoolCell(TRUE), BoolCell(FALSE)}
ConvNames == DOMAIN ColumnTypeOverrides \cup {"note"}

\* A batch of one column of 1..MaxColLen values, the same with a created_at
\* column, or a batch without rows.
InitConvert ==
  /\ EmptyStore
  /\ target = "teams"
  /\ calls = 0
  /\ NoPool
  /\ ecr = NoEcr
  /\ \/ \E name \in ConvNames, n \in 1..MaxColLen :
          \E cells \in [1..n -> ConvCells] \cup [1..n -> BoolCells] :
            last = [op |-> "batch", df |-> <<Column(name, cells)>>]
     \/ \E name \in ConvNames, c \in ConvCells :
          last = [op |-> "batch",
                  df |-> <<Column(name, <<c>>), Column("created_at", <<StrCell("abc")>>)>>]
     \/ \E name \in ConvNames : last = [op |-> "batch", df |-> <<Column(name, <<>>)>>]

CallConvertDataframeTypes ==
  /\ last.op = "batch"
  /\ last' = [op |-> "_convert_dataframe_types", df |-> last.df,
              result |-> ConvertDataframeTypes(last.df)]
  /\ UNCHANGED <<tables, ledger, target, calls, poolVars, ecr>>

NextConvert == CallConvertDataframeTypes

SpecConvert == InitConvert /\ [][NextConvert]_vars

\* The storage type of column j of the batch the call was made on.
TargetType(j) == GetSqlType(Dtype(last.df[j].cells), last.df[j].name)

\* A value that is no value of the storage type: a text that spells no
\* integer, no number, no boolean token, no date; a number that is no
\* integer.
Unparsable(c, type) ==
  CASE type = "INTEGER" ->
         \/ c.kind = "frac"
         \/ c.kind = "str" /\ ToNumericCell(c).kind # "int"
    [] type = "REAL" -> c.kind = "str" /\ ToNumericCell(c).kind \notin {"int", "frac"}
    [] type = "BOOLEAN" ->
         c.kind = "str" /\ Lower(c.txt) \notin TrueTokens \cup FalseTokens
    [] type \in {"DATE", "TIMESTAMP"} -> c.kind = "str" /\ c.txt \notin DateTexts
    [] OTHER -> FALSE

\* C22: _convert_dataframe_types returns for every batch, every value that
\* cannot be parsed as the storage type of its column is null in the
\* result, and a null stays null under every storage type.
C22_FailSoftCoercion ==
  last.op = "_convert_dataframe_types"
  => /\ Len(last.result) = Len(last.df)
     /\ \A j \in 1..Len(last.df) :
          last.df[j].name # "created_at"
          => \A i \in 1..Len(last.df[j].cells) :
               LET in == last.df[j].cells[i]
                   out == last.result[j].cells[i]
               IN /\ Unparsable(in, TargetType(j)) => out = Null
                  /\ in = Null => out = Null

\* C23: in a BOOLEAN column of texts, true, 1, yes, y give true and false,
\* 0, no, n give false, in any case of the letters; blank, nan and none
\* give null; and any other text gives null, whatever else the column holds.
C23_BooleanNormalization ==
  last.op = "_convert_dataframe_types"
  => \A j \in 1..Len(last.df) :
       TargetType(j) = "BOOLEAN"
       => \A i \in 1..Len(last.df[j].cells) :
            LET in == last.df[j].cells[i]
                out == last.result[j].cells[i]
            IN in.kind = "str"
               => out = IF Lower(in.txt) \in TrueTokens THEN BoolCell(TRUE)
                        ELSE IF Lower(in.txt) \in FalseTokens THEN BoolCell(FALSE)
                        ELSE Null

\* ------------- SpecRename: batches with reserved column names inserted
ReservedNames == DOMAIN ReservedKeywordRenames

\* The columns of the batches: one or two different names out of the four
\* reserved words and season.
RenameColLists ==
  LET names == ReservedNames \cup {"season"}
  IN {<<a>> : a \in names}
       \cup {cl \in {<<a, b>> : a \in names, b \in names} : cl[1] # cl[2]}

RenameTargets == {"players", "pbp_data"}

InitRename ==
  /\ EmptyStore
  /\ target \in RenameTargets
  /\ calls = 0
  /\ last = NoCall
  /\ NoPool
  /\ ecr = NoEcr

NextRename ==
  \E cl \in RenameColLists, oc \in {"REPLACE", "IGNORE"} :
    \E rows \in BagsUpTo(RowsOf(cl), 1) :
      CallInsertDataframe([cols |-> cl, rows |-> rows], oc)

SpecRename == InitRename /\ [][NextRename]_vars

\* C24: no stored table has a column named desc, order, time or date, and
\* the table an insert creates has, in the place of each such column of the
\* batch, play_description, play_order, game_time or game_date_field, and
\* every other column under the batch's name.
C24_ReservedWordRenaming ==
  /\ \A t \in TableNames :
       \A i \in 1..Len(tables[t].cols) : tables[t].cols[i] \notin ReservedNames
  /\ (last.op = "insert" /\ ~last.before.exists /\ tables[last.table].exists)
     => LET bcols == last.df.cols
            tcols == tables[last.table].cols
        IN /\ Len(tcols) = Len(bcols)
           /\ \A i \in 1..Len(bcols) :
                tcols[i] = CASE bcols[i] = "desc" -> "play_description"
                             [] bcols[i] = "order" -> "play_order"
                             [] bcols[i] = "time" -> "game_time"
                             [] bcols[i] = "date" -> "game_date_field"
                             [] OTHER -> bcols[i]

\* A batch with the columns season and desc has created its table.
C24_Witness ==
  /\ last.op = "insert"
  /\ last.df.cols = <<"season", "desc">>
  /\ ~last.before.exists
  /\ last.result = 1
  /\ tables[last.table].cols = <<"season", "play_description">>
  /\ BagCardinality(tables[last.table].rows) = 1

\* --------------------------- the season summary (summarizers/smry_season.py)
\* A row of seasonal_stats, rosters and ecr_rankings as the summary reads
\* it: the player, the season (year in ecr_rankings) and one value (games,
\* position, rank).
KeyedRow(p, s, v) == [player_id |-> p, season |-> s, val |-> v]

\* a = b in SQL: never true of a NULL.
SqlEq(a, b) == a # NULL /\ b # NULL /\ a = b

\* The groups of GROUP BY player_id, season (NULLs form a group).
GroupKeys(B) == {[player_id |-> r.player_id, season |-> r.season] : r \in DOMAIN B}

GroupVals(B, k) ==
  {r.val : r \in {x \in DOMAIN B : x.player_id = k.player_id /\ x.season = k.season}}

\* The rows as they are, with no GROUP BY.
GroupSummaries_NoGrouping(B) == {DOMAIN B}

\* SELECT player_id, season, ANY_VALUE(val) ... GROUP BY player_id, season:
\* one row per group, with any value of the group; every table the store
\* may compute.
GroupSummaries(B) ==
  {{KeyedRow(k.player_id, k.season, f[k]) : k \in GroupKeys(B)} :
     f \in {g \in [GroupKeys(B) -> {r.val : r \in DOMAIN B}] :
              \A k \in GroupKeys(B) : g[k] \in GroupVals(B, k)}}

\* The rows of R that s LEFT JOIN R ON s.player_id = r.player_id AND
\* s.season = r.season pairs with s.
JoinMatches(s, R) ==
  {r \in R : SqlEq(s.player_id, r.player_id) /\ SqlEq(s.season, r.season)}

\* The rows of smry_season one row s of seasonal_stats yields, given the
\* two summaries: s with the values of each pair of matches, and with NULL
\* where it has no match.
SummaryRowsOf(s, rs, es) ==
  LET vals(M) == IF M = {} THEN {NULL} ELSE {r.val : r \in M}
  IN {[player_id |-> s.player_id, season |-> s.season, games |-> s.val,
       position |-> p, ecr_rank |-> e] :
        p \in vals(JoinMatches(s, rs)), e \in vals(JoinMatches(s, es))}

\* The SELECT of create_table_sql (smry_season.py:83-232) over the bag S of
\* seasonal_stats: every copy of a row is joined by itself.  (ranked_data
\* adds window columns and no row.)
SummaryBag(S, rs, es) ==
  LET bag(s) == [x \in SummaryRowsOf(s, rs, es) |-> S[s]]
      RECURSIVE sum(_)
      sum(D) == IF D = {} THEN EmptyBag
                ELSE LET s == CHOOSE x \in D : TRUE IN bag(s) (+) sum(D \ {s})
  IN sum(DOMAIN S)

\* insert_dataframe(df, 'seasonal_stats') on rows with a player: the table
\* is created from the batch if it is missing, the seasons of the batch are
\* deleted, the batch is inserted (manager.py:226-256).
InsertSeasonal(td, df) ==
  IF BagCardinality(df.rows) = 0 THEN td
  ELSE LET c == IF TableExists(td) THEN Ok(td) ELSE CreateTable(td, DfClean(df))
           d == ExecDeletes(c.td, DeleteStmts(DfClean(df), "seasonal_stats", "REPLACE"))
       IN [d.td EXCEPT !.rows = d.td.rows (+) df.rows]

\* --------------------- SpecSummary: seasonal data ingested and summarized
MaxPlayers == 2

SummaryCols == <<"player_id", "season">>
SummaryTable(rows) == [exists |-> TRUE, cols |-> SummaryCols, rows |-> rows]

\* The batches of seasonal data: one or two rows of different
\* (player, season), the season possibly missing.
SeasonalRows ==
  {KeyedRow(p, s, 1) : p \in 1..MaxPlayers, s \in {1, 2, NULL}}

SeasonalBatches ==
  {[cols |-> SummaryCols, rows |-> SetToBag({a, b})] :
     a \in SeasonalRows, b \in SeasonalRows}

\* rosters (a row per player and week, so several per season) and
\* ecr_rankings as earlier commands left them, or missing.
SampleRosters ==
  {NoTable,
   SummaryTable(EmptyBag),
   SummaryTable(SetToBag({KeyedRow(1, 1, 10), KeyedRow(1, 1, 11), KeyedRow(2, 1, 10),
                          KeyedRow(NULL, 1, 10)}) (+) SetToBag({KeyedRow(1, 1, 10)}))}

SampleEcr ==
  {NoTable,
   SummaryTable(SetToBag({KeyedRow(1, 1, 5), KeyedRow(1, 1, 6), KeyedRow(1, NULL, 7)}))}

SummaryTables(seasonal, rosters, ecr_rankings, smry_season) ==
  [seasonal_stats |-> seasonal, rosters |-> rosters, ecr_rankings |-> ecr_rankings,
   smry_season |-> smry_season]

InitSummary ==
  /\ \E r \in SampleRosters, e \in SampleEcr :
       tables = SummaryTables(NoTable, r, e, NoTable)
  /\ ledger = <<>>
  /\ target = "seasonal_stats"
  /\ calls = 0
  /\ last = NoCall
  /\ NoPool
  /\ ecr = NoEcr

\* insert_dataframe(df, 'seasonal_stats'), as _extract_seasonal_data calls it.
CallInsertSeasonal(df) ==
  /\ calls < MaxCalls
  /\ tables' = [tables EXCEPT !.seasonal_stats = InsertSeasonal(tables.seasonal_stats, df)]
  /\ last' = [op |-> "insert", df |-> df]
  /\ calls' = calls + 1
  /\ UNCHANGED <<ledger, target, poolVars, ecr>>

\* create_smry_season_table (smry_season.py:234-236): DROP TABLE IF EXISTS
\* smry_season, then CREATE TABLE smry_season AS ..., which the store
\* rejects when a table it reads is missing.
CallCreateSmrySeason ==
  /\ last.op # "create_smry_season_table"
  /\ LET S == tables.seasonal_stats
         R == tables.rosters
         E == tables.ecr_rankings
     IN IF ~S.exists \/ ~R.exists \/ ~E.exists
        THEN /\ tables' = [tables EXCEPT !.smry_season = NoTable]
             /\ last' = [op |-> "create_smry_season_table", raised |-> TRUE]
        ELSE \E rs \in GroupSummaries(R.rows), es \in GroupSummaries(E.rows) :
               /\ tables' = [tables EXCEPT !.smry_season =
                               [exists |-> TRUE, cols |-> SummaryCols,
                                rows |-> SummaryBag(S.rows, rs, es)]]
               /\ last' = [op |-> "create_smry_season_table", raised |-> FALSE]
  /\ UNCHANGED <<ledger, target, calls, poolVars, ecr>>

NextSummary ==
  \/ \E df \in SeasonalBatches : CallInsertSeasonal(df)
  \/ CallCreateSmrySeason

SpecSummary == InitSummary /\ [][NextSummary]_vars

\* create_smry_season_table has returned.
SmryCreated == last.op = "create_smry_season_table" /\ ~last.raised

\* The number of rows of the bag B with the player p and the season s.
CountKey(B, p, s) ==
  BagCardinality([r \in {x \in DOMAIN B : x.player_id = p /\ x.season = s} |-> B[r]])

\* C25: after create_smry_season_table, smry_season has as many rows as
\* seasonal_stats, each row of seasonal_stats giving one row of the summary
\* with its player and season.
C25_OneSummaryRowPerSeasonalRow ==
  SmryCreated
  => /\ BagCardinality(tables.smry_season.rows)
          = BagCardinality(tables.seasonal_stats.rows)
     /\ \A p \in (1..MaxPlayers) \cup {NULL}, s \in {1, 2, NULL} :
          CountKey(tables.smry_season.rows, p, s)
            = CountKey(tables.seasonal_stats.rows, p, s)

\* Three seasonal rows, one with several roster and ranking rows for its
\* player and season, gave three summary rows.
C25_Witness ==
  /\ SmryCreated
  /\ BagCardinality(tables.seasonal_stats.rows) = 3
  /\ BagCardinality(tables.smry_season.rows) = 3
  /\ BagCardinality(tables.rosters.rows) = 5
  /\ BagCardinality(tables.ecr_rankings.rows) = 3
  /\ CountKey(tables.smry_season.rows, 1, 1) = 1

\* C26: after create_smry_season_table no two rows of smry_season have the
\* same player_id and season, also when seasonal data was ingested again.
C26_NoDuplicateSummaryRows ==
  SmryCreated
  => \A p \in (1..MaxPlayers) \cup {NULL}, s \in {1, 2, NULL} :
       CountKey(tables.smry_season.rows, p, s) <= 1

\* ------------------------------------------ claims on the replace (Spec)
\* The last call was an insert_dataframe with the REPLACE policy into an
\* existing table whose number of columns is not the batch's: the store
\* took the DELETEs of the call and rejected its INSERT.
InsertRejectedAfterDelete ==
  /\ last.op = "insert"
  /\ last.on_conflict = "REPLACE"
  /\ BagCardinality(last.df.rows) > 0
  /\ last.before.exists
  /\ Len(last.df.cols) # Len(last.before.cols)
  /\ \/ last.table \in LookupTables
     \/ /\ last.table \in SeasonTables
        /\ HasCol(last.df.cols, "season")
        /\ HasCol(last.before.cols, "season")
        /\ (last.table = "weekly_stats" /\ HasCol(last.df.cols, "week"))
             => HasCol(last.before.cols, "week")

\* The row r is in a partition the batch df replaces in the table t.
InBatchPartition(r, df, t) ==
  \/ t \in LookupTables
  \/ /\ t \in SeasonTables
     /\ \E b \in DOMAIN df.rows :
          /\ b.season # NULL /\ r.season = b.season
          /\ (t = "weekly_stats" /\ HasCol(df.cols, "week"))
               => (b.week # NULL /\ r.week = b.week)

\* C27: when the store rejects the INSERT of a replace after its DELETEs
\* ran, insert_dataframe raises and the table holds the rows it had without
\* the rows of the batch's partitions (of all rows, for teams and players):
\* the deleted rows are not restored and no row of the batch is stored.
C27_ReplaceNotAtomic ==
  InsertRejectedAfterDelete
  => /\ last.result = Raised
     /\ tables[last.table].rows
          = BagFilter(last.before.rows,
                      LAMBDA r : ~InBatchPartition(r, last.df, last.table))

\* A call raised and the rows the table had are gone.
C27_Witness ==
  /\ InsertRejectedAfterDelete
  /\ last.result = Raised
  /\ BagCardinality(last.before.rows) > 0
  /\ BagCardinality(tables[last.table].rows) = 0

\* ------------------------------------ claims under SpecEcr, continued
\* The rows of raw_ecr_rankings.
EcrTableRows(t) == {t.rows[j] : j \in 1..Len(t.rows)}

\* C28: raw_ecr_rankings is dropped before any file is looked for or read:
\* while the files are read the table does not exist, and when the run
\* returns an error dict or raises, no row the table held before the run
\* is stored any more.
C28_DropsBeforeReading ==
  /\ ecr.pc = "loop" => ~ecr.table.exists
  /\ (ecr.pc \in {"done", "exited"} /\ ecr.result.kind \in {"error", "raised"})
     => /\ EcrTableRows(ecr.table) \cap EcrTableRows(ecr.before) = {}
        /\ ecr.result.kind = "error" => ~ecr.table.exists

\* A run over a table with rankings found no usable file and ended with the
\* error dict and no table.
C28_Witness ==
  /\ ecr.pc = "done"
  /\ ecr.before = OldEcrTable
  /\ Len(ecr.files) = 2
  /\ ecr.result = EcrError("No data processed")
  /\ ~ecr.table.exists

\* ------------------------------------ claims under SpecPool, continued
\* The units of table t that returned.
ReturnedUnits(t) == {i \in 1..Len(units) : units[i].table = t /\ units[i].pc = "returned"}

\* C29: when a unit returns, the entry of its table becomes that unit's
\* rows_inserted, whatever the entry was, and no other entry changes; a unit
\* that raises changes no entry.  The value reported for a per-season table
\* is therefore the one of the unit that completed last, not a sum.
C29_LastCompletionWins ==
  [][\A i \in 1..Len(units) :
       (i \in Running(units) /\ Len(units') = Len(units) /\ Terminal(units'[i]))
         => IF units'[i].pc = "returned"
              THEN results' = [results EXCEPT ![units[i].table] = units'[i].records]
              ELSE results' = results]_vars

\* Two seasons, no failure, both play-by-play units returned, with 1 and 2
\* rows: the run reports 1, the rows of season 1, whose unit was submitted
\* first and completed last; a run in submission order reports 2.
C29_Witness ==
  /\ mainPc = "returned"
  /\ seasons = <<1, 2>>
  /\ down = {}
  /\ Cardinality(ReturnedUnits("pbp_data")) = 2
  /\ {units[i].records : i \in ReturnedUnits("pbp_data")} = {1, 2}
  /\ results["pbp_data"] = 1

\* ------------------------------------- claims on the partitions (Spec)
\* The last call was an insert_dataframe of a batch with rows into a
\* per-season table.
PartitionInsert ==
  /\ last.op = "insert"
  /\ last.table \in SeasonTables
  /\ BagCardinality(last.df.rows) > 0

\* The copies of r the INSERT of the last call stored.
StoredByLast(r) ==
  IF last.result = Raised THEN 0
  ELSE CopiesIn(r, StoredBag(last.df.rows, DfClean(last.df).cols,
                             tables[last.table].cols))

\* The season of r (and, for weekly_stats, its week) equals a value of the
\* batch that is not null.
InNamedPartition(r, df, t) ==
  /\ r.season \in BatchSeasons(df)
  /\ t = "weekly_stats" => r.week \in BatchWeeks(df, r.season)

\* C30 as stated: an insert into a per-season table that has a week column
\* removes no stored row whose season (and, for weekly_stats, week) is not
\* a non-null value of the batch.
C30_DeletesOnlyNamedPartitions ==
  (PartitionInsert /\ HasCol(last.before.cols, "week"))
  => \A r \in DOMAIN last.before.rows :
       ~InNamedPartition(r, last.df, last.table)
         => CopiesIn(r, tables[last.table].rows) >= CopiesIn(r, last.before.rows)

\* C30: an insert into a per-season table keeps every stored row outside
\* the partitions of the batch, which are its non-null seasons and, for
\* weekly_stats when the batch has a week column, the non-null weeks it has
\* for the season: a row with a null season, a weekly row with a null week
\* or with a week the batch does not have, is stored as often as before
\* plus the copies the INSERT adds.
C30_PartitionReplace ==
  PartitionInsert
  => \A r \in Rows :
       ~InBatchPartition(r, last.df, last.table)
         => CopiesIn(r, tables[last.table].rows)
              = CopiesIn(r, last.before.rows) + StoredByLast(r)

\* A weekly_stats batch is ingested again with the REPLACE policy: its row
\* with no season is stored twice, and a stored row of a season of the
\* batch, for a week the batch does not have, is still there.
C30_Witness ==
  /\ PartitionInsert
  /\ last.table = "weekly_stats"
  /\ last.on_conflict = "REPLACE"
  /\ last.result # Raised
  /\ HasCol(last.df.cols, "week")
  /\ \E r \in DOMAIN last.df.rows :
       /\ r.season = NULL
       /\ CopiesIn(r, last.before.rows) = 1
       /\ CopiesIn(r, tables[last.table].rows) = 2
  /\ \E r \in DOMAIN last.before.rows :
       /\ r.season \in BatchSeasons(last.df)
       /\ r.week \notin BatchWeeks(last.df, r.season) \cup {NULL}
       /\ CopiesIn(r, tables[last.table].rows) = CopiesIn(r, last.before.rows)

====
